---- MODULE Spec2Model ----
(***************************************************************************)
(* A model of epub2pdf's EPUB parser (internal/epub/parser.go): Parse, the *)
(* manifest/spine walk, the asset inliner (resolveAndEmbed and its path    *)
(* helpers), the markup rewriter (embedImages) and the document assembler  *)
(* (Book.ToHTML); of the command (cmd/root.go: runConvert) and of          *)
(* converter.Convert (internal/converter/converter.go).                    *)
(*                                                                         *)
(* Go strings are byte strings; here a string is a sequence of byte values *)
(* (0..255), written as a tuple with the text beside it in a comment.      *)
(***************************************************************************)
EXTENDS Integers, Sequences, FiniteSets, TLC

VARIABLES
  pc,        \* position of the program: of Parse "open", "container", ...,
             \* "done"; of ToHTML "tohtml", "chapters", "returned" (or
             \* "panicked"); of the command "cmd", "tmp", "render", "write",
             \* "exit"
  epub,      \* the archive given to Parse: [openOK, files]
  files,     \* Parse's lookup map, stored path -> zip entry (parser.go:81)
  opfPath,   \* container.RootFiles[0].FullPath
  pkg,       \* the decoded package document
  book,      \* the Book under construction / returned
  err,       \* "nil" or the error Parse returned
  idx,       \* loop index of the manifest loop, then of the spine loop, then
             \* of ToHTML's chapter loop
  call,      \* the inliner run: "none", "init", "resolved", "embedded", "again"
  arg,       \* the inliner's inputs: [src, basePath, files, parts, content]
  ret,       \* the inliner's results: [dataURI, imagePath, lookups, content, again]
  sb,        \* the strings.Builder of ToHTML (parser.go:431)
  cli,       \* the command line of runConvert and the output path it chose
  disk       \* what Convert touches: the temporary HTML file, the rendering
             \* engine, the PDF

vars == <<pc, epub, files, opfPath, pkg, book, err, idx, call, arg, ret, sb, cli, disk>>

\* Body applied to the value v: "v := ...; Body" of the code, v computed
\* once however often Body uses it.
With(v, Body(_)) == Body(v)

(***************************************************************************)
(* Bytes and strings                                                       *)
(***************************************************************************)

Max(S) == CHOOSE x \in S : \A y \in S : y <= x

Min(S) == CHOOSE x \in S : \A y \in S : x <= y

\* s[from:] of Go (from is a 0-based offset).
Drop(s, from) == SubSeq(s, from + 1, Len(s))

\* s[:to] of Go.
Take(s, to) == SubSeq(s, 1, to)

\* strings.HasPrefix
HasPrefix(s, prefix) ==
  Len(s) >= Len(prefix) /\ Take(s, Len(prefix)) = prefix

\* strings.HasSuffix
HasSuffix(s, suffix) ==
  Len(s) >= Len(suffix) /\ Drop(s, Len(s) - Len(suffix)) = suffix

\* strings.TrimPrefix
TrimPrefix(s, prefix) ==
  IF HasPrefix(s, prefix) THEN Drop(s, Len(prefix)) ELSE s

\* The 0-based offsets at which sub occurs in s.
Occurrences(s, sub) ==
  {i \in 0..(Len(s) - Len(sub)) : SubSeq(s, i + 1, i + Len(sub)) = sub}

\* strings.Index(s, sub): the 0-based offset of the first occurrence, or -1.
Index(s, sub) ==
  With(Occurrences(s, sub), LAMBDA hits : IF hits = {} THEN -1 ELSE Min(hits))

\* strings.LastIndex(s, sub)
LastIndex(s, sub) ==
  With(Occurrences(s, sub), LAMBDA hits : IF hits = {} THEN -1 ELSE Max(hits))

\* strings.Contains
Contains(s, sub) == Occurrences(s, sub) # {}

\* unicode.ToLower on one ASCII byte.
LowerByte(b) == IF b >= 65 (* 'A' *) /\ b <= 90 (* 'Z' *) THEN b + 32 ELSE b

\* strings.ToLower (ASCII input).
ToLower(s) == [i \in DOMAIN s |-> LowerByte(s[i])]

RECURSIVE Concat(_)
\* The concatenation of a sequence of strings.
Concat(ss) == IF ss = <<>> THEN <<>> ELSE Head(ss) \o Concat(Tail(ss))

(***************************************************************************)
(* package path: Clean, Join, Dir                                          *)
(***************************************************************************)

RECURSIVE SplitSlash(_)
\* strings.Split(p, "/"): the segments between slashes (empty ones kept).
SplitSlash(p) ==
  With(Index(p, <<47>> (* / *)), LAMBDA i :
    IF i = -1 THEN <<p>> ELSE <<Take(p, i)>> \o SplitSlash(Drop(p, i + 1)))

RECURSIVE JoinSlash(_)
\* strings.Join(segs, "/")
JoinSlash(segs) ==
  IF segs = <<>> THEN <<>>
  ELSE IF Len(segs) = 1 THEN segs[1]
  ELSE segs[1] \o <<47>> (* / *) \o JoinSlash(Tail(segs))

\* One step of path.Clean's loop, on the element seg with the elements out
\* kept so far: "" and "." are dropped; ".." removes the element before it,
\* or is dropped at the root of a rooted path, or is kept in a relative one.
CleanStep(out, seg, rooted) ==
  IF seg = <<>> \/ seg = <<46>> (* . *) THEN out
  ELSE IF seg # <<46, 46>> (* .. *) THEN Append(out, seg)
  ELSE IF out # <<>> /\ out[Len(out)] # <<46, 46>> (* .. *) THEN Take(out, Len(out) - 1)
  ELSE IF rooted THEN out
  ELSE Append(out, seg)

RECURSIVE CleanSegs(_, _, _)
\* The loop of path.Clean over the elements of the path.
CleanSegs(segs, out, rooted) ==
  IF segs = <<>> THEN out
  ELSE CleanSegs(Tail(segs), CleanStep(out, Head(segs), rooted), rooted)

\* path.Clean of a non-empty path whose elements are segs.
CleanOf(segs, rooted) ==
  With(JoinSlash(CleanSegs(segs, <<>>, rooted)), LAMBDA body :
    IF rooted THEN <<47>> (* / *) \o body
    ELSE IF body = <<>> THEN <<46>> (* . *)
    ELSE body)

\* path.Clean
Clean(p) ==
  IF p = <<>> THEN <<46>> (* . *) ELSE CleanOf(SplitSlash(p), p[1] = 47 (* '/' *))

\* path.Join of two elements: empty elements are ignored, the rest is joined
\* by "/" and cleaned; all elements empty gives "".
Join(a, b) ==
  IF a = <<>> /\ b = <<>> THEN <<>>
  ELSE Clean(IF a = <<>> THEN b ELSE IF b = <<>> THEN a ELSE a \o <<47>> (* / *) \o b)

\* path.Dir: everything up to the last slash, cleaned.
Dir(p) == Clean(Take(p, LastIndex(p, <<47>> (* / *)) + 1))

(***************************************************************************)
(* net/url QueryUnescape                                                   *)
(***************************************************************************)

\* url.ishex
ishex(c) ==
  \/ c >= 48 (* '0' *) /\ c <= 57 (* '9' *)
  \/ c >= 97 (* 'a' *) /\ c <= 102 (* 'f' *)
  \/ c >= 65 (* 'A' *) /\ c <= 70 (* 'F' *)

\* url.unhex
unhex(c) ==
  IF c >= 48 (* '0' *) /\ c <= 57 (* '9' *) THEN c - 48 (* '0' *)
  ELSE IF c >= 97 (* 'a' *) /\ c <= 102 (* 'f' *) THEN c - 97 (* 'a' *) + 10
  ELSE IF c >= 65 (* 'A' *) /\ c <= 70 (* 'F' *) THEN c - 65 (* 'A' *) + 10
  ELSE 0

\* The first pass of url.unescape: some '%' is not followed by two hex digits.
EscapeError(s) ==
  \E i \in DOMAIN s :
    /\ s[i] = 37 (* '%' *)
    /\ \/ i + 2 > Len(s)
       \/ ~ishex(s[i + 1])
       \/ ~ishex(s[i + 2])

RECURSIVE unescape(_)
\* The second pass of url.unescape in query-component mode: %XX becomes the
\* byte XX, '+' becomes a space, every other byte is copied.
unescape(s) ==
  IF s = <<>> THEN <<>>
  ELSE IF s[1] = 37 (* '%' *)
    THEN <<16 * unhex(s[2]) + unhex(s[3])>> \o unescape(Drop(s, 3))
  ELSE IF s[1] = 43 (* '+' *) THEN <<32>> (*   *) \o unescape(Drop(s, 1))
  ELSE <<s[1]>> \o unescape(Drop(s, 1))

\* url.QueryUnescape: [ok, val]; ok = FALSE is the EscapeError.
QueryUnescape(s) ==
  IF EscapeError(s) THEN [ok |-> FALSE, val |-> <<>>]
  ELSE [ok |-> TRUE, val |-> unescape(s)]

(***************************************************************************)
(* encoding/base64, StdEncoding                                            *)
(***************************************************************************)

encodeStd ==
  <<65, 66, 67, 68, 69, 70, 71, 72, 73, 74, 75, 76, 77, 78, 79, 80, 81, 82, 83, 84, 85, 86, 87, 88, 89, 90, 97, 98, 99, 100, 101, 102, 103, 104, 105, 106, 107, 108, 109, 110, 111, 112, 113, 114, 115, 116, 117, 118, 119, 120, 121, 122, 48, 49, 50, 51, 52, 53, 54, 55, 56, 57, 43, 47>> (* ABCDEFGHIJKLMNOPQRSTUVWXYZabcdefghijklmnopqrstuvwxyz0123456789+/ *)

\* The four base64 characters of the 24-bit group val, the last pad of them
\* replaced by the padding character.
EncodeGroup(val, pad) ==
  <<encodeStd[(val \div 262144) + 1],
    encodeStd[((val \div 4096) % 64) + 1],
    IF pad >= 2 THEN 61 (* '=' *) ELSE encodeStd[((val \div 64) % 64) + 1],
    IF pad >= 1 THEN 61 (* '=' *) ELSE encodeStd[(val % 64) + 1]>>

RECURSIVE EncodeToString(_)
\* base64.StdEncoding.EncodeToString: three bytes become four characters; a
\* last group of one or two bytes is padded with '='.
EncodeToString(data) ==
  IF data = <<>> THEN <<>>
  ELSE IF Len(data) = 1 THEN EncodeGroup(data[1] * 65536, 2)
  ELSE IF Len(data) = 2 THEN EncodeGroup(data[1] * 65536 + data[2] * 256, 1)
  ELSE EncodeGroup(data[1] * 65536 + data[2] * 256 + data[3], 0)
         \o EncodeToString(Drop(data, 3))

(***************************************************************************)
(* The archive: Parse's map from stored path to zip entry.  An entry is    *)
(* [data, openErr, xml]: its bytes, whether f.Open() fails on it, and what *)
(* encoding/xml decodes its bytes to: [kind |-> "container", RootFiles],   *)
(* [kind |-> "package", Metadata, Manifest, Spine], or [kind |-> "none"]   *)
(* for bytes that are no such document.                                    *)
(***************************************************************************)

\* files[name] exists (the "ok" of a Go map lookup).
Has(fs, name) == name \in DOMAIN fs

\* A read that stops after the first byte.  C4 tells it from
\* readBinaryContent, which returns the whole entry.
readBinaryContentShort(f) ==
  IF f.openErr THEN [ok |-> FALSE, data |-> <<>>]
  ELSE [ok |-> TRUE, data |-> Take(f.data, 1)]

\* readBinaryContent: [ok, data]; ok = FALSE is the error of f.Open().
readBinaryContent(f) ==
  IF f.openErr THEN [ok |-> FALSE, data |-> <<>>]
  ELSE [ok |-> TRUE, data |-> f.data]

\* A read that takes an entry that cannot be opened for an empty one.  C2
\* tells it from readFileContent, whose error makes Parse skip the chapter.
readFileContentLenient(f) == [ok |-> TRUE, data |-> f.data]

\* readFileContent: the same read, returned as a string.
readFileContent(f) ==
  IF f.openErr THEN [ok |-> FALSE, data |-> <<>>]
  ELSE [ok |-> TRUE, data |-> f.data]

\* resolvePath
resolvePath(basePath, href) ==
  IF basePath = <<>> THEN href ELSE Join(basePath, href)

(***************************************************************************)
(* The asset inliner                                                       *)
(***************************************************************************)

RECURSIVE resolveRelativePath(_, _)
\* resolveRelativePath: a leading "../" moves to path.Dir of the base.
resolveRelativePath(basePath, href) ==
  IF basePath = <<>> THEN href
  ELSE IF HasPrefix(href, <<46, 46, 47>> (* ../ *))
    THEN resolveRelativePath(Dir(basePath), TrimPrefix(href, <<46, 46, 47>> (* ../ *)))
  ELSE Join(basePath, href)

\* normalizePath
normalizePath(p) == TrimPrefix(Clean(p), <<47>> (* / *))

\* isImageFile: the lower-cased reference ends in one of the extensions.
isImageFile(src) ==
  \E ext \in {<<46, 106, 112, 103>> (* .jpg *), <<46, 106, 112, 101, 103>> (* .jpeg *), <<46, 112, 110, 103>> (* .png *), <<46, 103, 105, 102>> (* .gif *), <<46, 115, 118, 103>> (* .svg *), <<46, 119, 101, 98, 112>> (* .webp *),
              <<46, 98, 109, 112>> (* .bmp *), <<46, 105, 99, 111>> (* .ico *)} : HasSuffix(ToLower(src), ext)

\* The switch of getMimeType on the lower-cased file name.
mimeOfLower(lower) ==
  IF HasSuffix(lower, <<46, 106, 112, 103>> (* .jpg *)) \/ HasSuffix(lower, <<46, 106, 112, 101, 103>> (* .jpeg *)) THEN <<105, 109, 97, 103, 101, 47, 106, 112, 101, 103>> (* image/jpeg *)
  ELSE IF HasSuffix(lower, <<46, 112, 110, 103>> (* .png *)) THEN <<105, 109, 97, 103, 101, 47, 112, 110, 103>> (* image/png *)
  ELSE IF HasSuffix(lower, <<46, 103, 105, 102>> (* .gif *)) THEN <<105, 109, 97, 103, 101, 47, 103, 105, 102>> (* image/gif *)
  ELSE IF HasSuffix(lower, <<46, 115, 118, 103>> (* .svg *)) THEN <<105, 109, 97, 103, 101, 47, 115, 118, 103, 43, 120, 109, 108>> (* image/svg+xml *)
  ELSE IF HasSuffix(lower, <<46, 119, 101, 98, 112>> (* .webp *)) THEN <<105, 109, 97, 103, 101, 47, 119, 101, 98, 112>> (* image/webp *)
  ELSE IF HasSuffix(lower, <<46, 98, 109, 112>> (* .bmp *)) THEN <<105, 109, 97, 103, 101, 47, 98, 109, 112>> (* image/bmp *)
  ELSE IF HasSuffix(lower, <<46, 105, 99, 111>> (* .ico *)) THEN <<105, 109, 97, 103, 101, 47, 120, 45, 105, 99, 111, 110>> (* image/x-icon *)
  ELSE <<>>

\* The switch without the lower-casing.  C8 tells it from getMimeType.
getMimeTypeExact(filename) == mimeOfLower(filename)

\* getMimeType: "" for an extension outside the list.
getMimeType(filename) == mimeOfLower(ToLower(filename))

\* No reference is skipped.  C7 tells it from skipScheme.
skipNothing(src) == FALSE

\* resolveAndEmbed, lines 314-317: data URIs and external URLs are skipped.
skipScheme(src) ==
  \/ HasPrefix(src, <<100, 97, 116, 97, 58>> (* data: *))
  \/ HasPrefix(src, <<104, 116, 116, 112, 58, 47, 47>> (* http:// *))
  \/ HasPrefix(src, <<104, 116, 116, 112, 115, 58, 47, 47>> (* https:// *))

\* resolveAndEmbed, lines 319-323: the reference up to its first '#'.
stripFragment(src) ==
  With(Index(src, <<35>> (* # *)), LAMBDA i : IF i # -1 THEN Take(src, i) ELSE src)

\* resolveAndEmbed, lines 325-329: the unescaped reference when
\* url.QueryUnescape succeeds, the reference itself when it fails.
decodeOr(cleanSrc) ==
  With(QueryUnescape(cleanSrc), LAMBDA decoded :
    IF decoded.ok THEN decoded.val ELSE cleanSrc)

\* resolveAndEmbed, lines 319-329: cleanSrc.
cleanSrcOf(src) == decodeOr(stripFragment(src))

\* The lookups with the bare reference tried before the resolved path.  C5
\* tells it from lookupKeys.
lookupKeysSwapped(cleanSrc, imagePath, fs) ==
  IF Has(fs, cleanSrc) THEN <<cleanSrc>>
  ELSE IF Has(fs, imagePath) THEN <<cleanSrc, imagePath>>
  ELSE <<cleanSrc, imagePath, normalizePath(imagePath)>>

\* resolveAndEmbed, lines 334-347: the keys looked up in files, in the order
\* the code tries them; a lookup is made only when the one before it missed.
lookupKeys(cleanSrc, imagePath, fs) ==
  IF Has(fs, imagePath) THEN <<imagePath>>
  ELSE IF Has(fs, cleanSrc) THEN <<imagePath, cleanSrc>>
  ELSE <<imagePath, cleanSrc, normalizePath(imagePath)>>

\* fmt.Sprintf("data:%s;base64,%s", mimeType, encoded)
dataURIOf(mimeType, encoded) ==
  <<100, 97, 116, 97, 58>> (* data: *) \o mimeType \o <<59, 98, 97, 115, 101, 54, 52, 44>> (* ;base64, *) \o encoded

\* resolveAndEmbed, lines 349-363, for the entry zipFile the lookup found:
\* the entry is read, the media type is taken from cleanSrc, and the bytes are
\* encoded.
embedEntry(zipFile, cleanSrc) ==
  With(readBinaryContent(zipFile), LAMBDA read :
    IF ~read.ok THEN <<>>
    ELSE With(getMimeType(cleanSrc), LAMBDA mimeType :
           IF mimeType = <<>> THEN <<>>
           ELSE dataURIOf(mimeType, EncodeToString(read.data))))

\* resolveAndEmbed, lines 334-363, after the lookups keys: the last key looked
\* up is the hit, unless all three missed.
embedFound(keys, cleanSrc, fs) ==
  IF ~Has(fs, keys[Len(keys)]) THEN <<>>
  ELSE embedEntry(fs[keys[Len(keys)]], cleanSrc)

\* resolveAndEmbed with what it did on the way: [dataURI, cleanSrc, imagePath,
\* lookups], the result ("" when the reference is not inlined), the two
\* locals and the keys looked up in files, in order.
resolveAndEmbedRun(src, basePath, fs) ==
  IF skipScheme(src)
    THEN [dataURI |-> <<>>, cleanSrc |-> <<>>, imagePath |-> <<>>, lookups |-> <<>>]
  ELSE With(cleanSrcOf(src), LAMBDA cleanSrc :
       With(resolveRelativePath(basePath, cleanSrc), LAMBDA imagePath :
       With(lookupKeys(cleanSrc, imagePath, fs), LAMBDA keys :
         [dataURI |-> embedFound(keys, cleanSrc, fs),
          cleanSrc |-> cleanSrc,
          imagePath |-> imagePath,
          lookups |-> keys])))

\* resolveAndEmbed: the data URI, or "" when the reference is not inlined.
resolveAndEmbed(src, basePath, fs) == resolveAndEmbedRun(src, basePath, fs).dataURI

(***************************************************************************)
(* The three regular expressions of embedImages.  Go's regexp returns the  *)
(* leftmost match and, among the matches at that place, the one a          *)
(* backtracking search finds first: a greedy repetition takes as much as   *)
(* still lets the rest match.  Under (?i) an ASCII letter of the markup    *)
(* matches in either case (the markup modelled is ASCII).  A match is      *)
(* [ok, start, end, prefix, quote, src, suffix], positions 1-based and     *)
(* inclusive; the last four are the submatches 1 to 4.                     *)
(***************************************************************************)

NoMatch ==
  [ok |-> FALSE, start |-> 0, end |-> 0,
   prefix |-> <<>>, quote |-> <<>>, src |-> <<>>, suffix |-> <<>>]

\* The regexp character classes used: \s, ["'], [^"'], [^"')], [^>].
InClass(class, c) ==
  CASE class = "space" -> c \in {9, 10, 12, 13, 32}
    [] class = "quote" -> c \in {34 (* '"' *), 39 (* ''' *)}
    [] class = "notquote" -> c \notin {34 (* '"' *), 39 (* ''' *)}
    [] class = "noturl" -> c \notin {34 (* '"' *), 39 (* ''' *), 41 (* ')' *)}
    [] class = "notgt" -> c # 62 (* '>' *)

RECURSIVE Span(_, _, _)
\* How many bytes from position p on are in the class.
Span(class, s, p) ==
  IF p > Len(s) \/ ~InClass(class, s[p]) THEN 0
  ELSE 1 + Span(class, s, p + 1)

\* The byte at p is in the class.
At(class, s, p) == p >= 1 /\ p <= Len(s) /\ InClass(class, s[p])

\* The (lower-case) literal matches at p under (?i).
FoldMatch(s, p, lit) ==
  /\ p >= 1
  /\ p + Len(lit) - 1 <= Len(s)
  /\ \A i \in 1..Len(lit) : LowerByte(s[p + i - 1]) = lit[i]

\* \s*=\s*(["'])([^"']+)(["']) at q: [ok, quoteAt, end].  Every choice is
\* forced: a run of \s ends before '=' or a quote, [^"']+ ends at a quote.
AttrTail(s, q) ==
  With(q + Span("space", s, q), LAMBDA eq :
  With(eq + 1 + Span("space", s, eq + 1), LAMBDA quoteAt :
  With(quoteAt + 1 + Span("notquote", s, quoteAt + 1), LAMBDA end :
    IF /\ eq <= Len(s)
       /\ s[eq] = 61 (* '=' *)
       /\ At("quote", s, quoteAt)
       /\ end > quoteAt + 1
       /\ At("quote", s, end)
    THEN [ok |-> TRUE, quoteAt |-> quoteAt, end |-> end]
    ELSE [ok |-> FALSE, quoteAt |-> 0, end |-> 0])))

\* The submatches of an attribute match from start to tail.end.
AttrMatch(s, start, tail) ==
  [ok |-> TRUE, start |-> start, end |-> tail.end,
   prefix |-> SubSeq(s, start, tail.quoteAt - 1),
   quote |-> <<s[tail.quoteAt]>>,
   src |-> SubSeq(s, tail.quoteAt + 1, tail.end - 1),
   suffix |-> <<s[tail.end]>>]

\* The lengths j that [^>]* may take after "<img" (which ends before a) so
\* that \ssrc and the rest of the expression match.
imgGaps(s, a) ==
  {j \in 0..Span("notgt", s, a) :
     /\ At("space", s, a + j)
     /\ FoldMatch(s, a + j + 1, <<115, 114, 99>> (* src *))
     /\ AttrTail(s, a + j + 4).ok}

\* imgSrcRegex at p: (?i)(<img[^>]*\ssrc\s*=\s*)(["'])([^"']+)(["']).
\* [^>]* is greedy: the longest stretch after which the rest matches.
imgSrcAt(s, p) ==
  IF ~FoldMatch(s, p, <<60, 105, 109, 103>> (* <img *)) THEN NoMatch
  ELSE With(imgGaps(s, p + 4), LAMBDA J :
         IF J = {} THEN NoMatch
         ELSE AttrMatch(s, p, AttrTail(s, p + 4 + Max(J) + 4)))

\* xlinkRegex at p: (?i)(xlink:href\s*=\s*)(["'])([^"']+)(["']).
xlinkAt(s, p) ==
  IF ~FoldMatch(s, p, <<120, 108, 105, 110, 107, 58, 104, 114, 101, 102>> (* xlink:href *)) THEN NoMatch
  ELSE With(AttrTail(s, p + 10), LAMBDA tail :
         IF tail.ok THEN AttrMatch(s, p, tail) ELSE NoMatch)

\* The position of the ')' when \s*\) matches at q, else 0.
closeParen(s, q) ==
  With(q + Span("space", s, q), LAMBDA close :
    IF close <= Len(s) /\ s[close] = 41 (* ')' *) THEN close ELSE 0)

\* (["']?\s*\)) at e: the position of the ')' or 0.  The quote is taken when
\* there is one (without it the next byte would have to be \s or ')').
urlClose(s, e) == closeParen(s, IF At("quote", s, e) THEN e + 1 ELSE e)

\* The ways urlRegex can match after the '(' (which ends before a):
\* <<w, k, g>> are the lengths taken by \s*, by ["']? and by [^"')]+.
urlCands(s, a) ==
  {c \in (0..Span("space", s, a)) \X {0, 1} \X (1..Len(s)) :
     /\ c[2] = 1 => At("quote", s, a + c[1])
     /\ c[3] <= Span("noturl", s, a + c[1] + c[2])
     /\ urlClose(s, a + c[1] + c[2] + c[3]) # 0}

\* The search tries c before d: each of the three is tried longest first, the
\* earlier ones deciding.
urlBefore(c, d) ==
  \/ c[1] > d[1]
  \/ c[1] = d[1] /\ c[2] > d[2]
  \/ c[1] = d[1] /\ c[2] = d[2] /\ c[3] >= d[3]

\* The submatches of the url match at p whose submatch 2 starts at q, whose
\* submatch 3 is s[b..e-1] and whose ')' is at close.
urlMatch(s, p, q, b, e, close) ==
  [ok |-> TRUE, start |-> p, end |-> close,
   prefix |-> SubSeq(s, p, q - 1),
   quote |-> SubSeq(s, q, b - 1),
   src |-> SubSeq(s, b, e - 1),
   suffix |-> SubSeq(s, e, close)]

\* The url match at p that takes the lengths best after the '(' before a.
urlTake(s, p, a, best) ==
  urlMatch(s, p, a + best[1], a + best[1] + best[2],
           a + best[1] + best[2] + best[3],
           urlClose(s, a + best[1] + best[2] + best[3]))

\* The url match at p, the '(' expected at open.
urlOpen(s, p, open) ==
  IF open > Len(s) THEN NoMatch
  ELSE IF s[open] # 40 (* '(' *) THEN NoMatch
  ELSE With(urlCands(s, open + 1), LAMBDA cands :
         IF cands = {} THEN NoMatch
         ELSE urlTake(s, p, open + 1,
                      CHOOSE c \in cands : \A d \in cands : urlBefore(c, d)))

\* urlRegex at p: (?i)(url\s*\(\s*)(["']?)([^"')]+)(["']?\s*\)).
urlAt(s, p) ==
  IF ~FoldMatch(s, p, <<117, 114, 108>> (* url *)) THEN NoMatch
  ELSE urlOpen(s, p, p + 3 + Span("space", s, p + 3))

\* The match of the regexp named re ("img", "xlink", "url") at p.
MatchAt(re, s, p) ==
  CASE re = "img" -> imgSrcAt(s, p)
    [] re = "xlink" -> xlinkAt(s, p)
    [] re = "url" -> urlAt(s, p)

\* The byte every match of the regexp starts with, in lower case.
firstByte(re) ==
  CASE re = "img" -> 60 (* '<' *)
    [] re = "xlink" -> 120 (* 'x' *)
    [] re = "url" -> 117 (* 'u' *)

\* The leftmost match starting at or after from (regexp's search).
FindMatch(re, s, from) ==
  With({p \in from..Len(s) :
          LowerByte(s[p]) = firstByte(re) /\ MatchAt(re, s, p).ok},
       LAMBDA starts :
         IF starts = {} THEN NoMatch ELSE MatchAt(re, s, Min(starts)))

\* re.FindStringSubmatch(match)
FindStringSubmatch(re, s) == FindMatch(re, s, 1)

(***************************************************************************)
(* embedImages                                                             *)
(***************************************************************************)

\* A callback that always writes double quotes.  C9 tells it from imgRepl,
\* which keeps the quotes of the match.
imgReplDoubleQuote(match, basePath, fs) ==
  With(FindStringSubmatch("img", match), LAMBDA parts :
    IF ~parts.ok THEN match
    ELSE With(resolveAndEmbed(parts.src, basePath, fs), LAMBDA dataURI :
           IF dataURI # <<>>
             THEN parts.prefix \o <<34>> (* " *) \o dataURI \o <<34>> (* " *)
           ELSE match))

\* The callback of the img pass (lines 251-266).
imgRepl(match, basePath, fs) ==
  With(FindStringSubmatch("img", match), LAMBDA parts :
    IF ~parts.ok THEN match
    ELSE With(resolveAndEmbed(parts.src, basePath, fs), LAMBDA dataURI :
           IF dataURI # <<>>
             THEN parts.prefix \o parts.quote \o dataURI \o parts.suffix
           ELSE match))

\* The callback of the xlink:href pass (lines 269-287).
xlinkRepl(match, basePath, fs) ==
  With(FindStringSubmatch("xlink", match), LAMBDA parts :
    IF ~parts.ok THEN match
    ELSE IF ~isImageFile(parts.src) THEN match
    ELSE With(resolveAndEmbed(parts.src, basePath, fs), LAMBDA dataURI :
           IF dataURI # <<>>
             THEN parts.prefix \o parts.quote \o dataURI \o parts.suffix
           ELSE match))

\* The callback of the url() pass (lines 290-308).
urlRepl(match, basePath, fs) ==
  With(FindStringSubmatch("url", match), LAMBDA parts :
    IF ~parts.ok THEN match
    ELSE IF ~isImageFile(parts.src) THEN match
    ELSE With(resolveAndEmbed(parts.src, basePath, fs), LAMBDA dataURI :
           IF dataURI # <<>>
             THEN parts.prefix \o parts.quote \o dataURI \o parts.suffix
           ELSE match))

\* The callback of the pass of regexp re.
Repl(re, match, basePath, fs) ==
  CASE re = "img" -> imgRepl(match, basePath, fs)
    [] re = "xlink" -> xlinkRepl(match, basePath, fs)
    [] re = "url" -> urlRepl(match, basePath, fs)

RECURSIVE ReplaceAllFrom(_, _, _, _, _)
\* ReplaceAllStringFunc from position from on: the text before the next
\* match is copied, the match is replaced by the callback's result, and the
\* search goes on after the match.
ReplaceAllFrom(re, s, from, basePath, fs) ==
  With(FindMatch(re, s, from), LAMBDA m :
    IF ~m.ok THEN SubSeq(s, from, Len(s))
    ELSE SubSeq(s, from, m.start - 1)
           \o Repl(re, SubSeq(s, m.start, m.end), basePath, fs)
           \o ReplaceAllFrom(re, s, m.end + 1, basePath, fs))

\* One pass of embedImages: re.ReplaceAllStringFunc(content, callback).
ReplaceAllStringFunc(re, content, basePath, fs) ==
  ReplaceAllFrom(re, content, 1, basePath, fs)

\* embedImages: the img pass, then xlink:href, then url().
embedImages(content, basePath, fs) ==
  ReplaceAllStringFunc("url",
    ReplaceAllStringFunc("xlink",
      ReplaceAllStringFunc("img", content, basePath, fs),
      basePath, fs),
    basePath, fs)

(***************************************************************************)
(* Parse                                                                   *)
(***************************************************************************)

\* The nil *Book.
NilBook ==
  [isNil |-> TRUE, Title |-> <<>>, Author |-> <<>>, Chapters |-> <<>>,
   CSS |-> <<>>, BasePath |-> <<>>]

\* parseContainer: [ok, val]; f.Open() or the XML decoding may fail.
parseContainer(f) ==
  IF f.openErr \/ f.xml.kind # "container" THEN [ok |-> FALSE, val |-> f.xml]
  ELSE [ok |-> TRUE, val |-> f.xml]

\* parsePackage: [ok, val].
parsePackage(f) ==
  IF f.openErr \/ f.xml.kind # "package" THEN [ok |-> FALSE, val |-> f.xml]
  ELSE [ok |-> TRUE, val |-> f.xml]

\* The last rootfile instead of the first.  C3 tells it from rootFilePath.
rootFilePathLast(container) ==
  container.RootFiles[Len(container.RootFiles)].FullPath

\* Line 101: the package document is the one the first rootfile names.
rootFilePath(container) == container.RootFiles[1].FullPath

\* Lines 112-115: the directory of the package document, "" at the top level.
basePathOf(opf) ==
  With(Dir(opf), LAMBDA basePath : IF basePath = <<46>> (* . *) THEN <<>> ELSE basePath)

\* Lines 117-121: the Book created from the package document.
newBook(p, basePath) ==
  [isNil |-> FALSE, Title |-> p.Metadata.Title, Author |-> p.Metadata.Creator,
   Chapters |-> <<>>, CSS |-> <<>>, BasePath |-> basePath]

\* Lines 123-127: manifestMap; a later item with the same id replaces an
\* earlier one.
manifestMap(items) ==
  [id \in {items[k].ID : k \in DOMAIN items} |->
     items[Max({k \in DOMAIN items : items[k].ID = id})]]

\* Lines 133-140 for the style sheet stored at cssPath.
cssAt(css, cssPath, fs) ==
  IF ~Has(fs, cssPath) THEN css
  ELSE With(readFileContent(fs[cssPath]), LAMBDA read :
         IF ~read.ok THEN css
         ELSE Append(css, embedImages(read.data, Dir(cssPath), fs)))

\* The media type compared without regard to case.  C13 tells it from
\* cssStep.
cssStepAnyCase(css, item, basePath, fs) ==
  IF ToLower(item.MediaType) # <<116, 101, 120, 116, 47, 99, 115, 115>> (* text/css *) THEN css
  ELSE cssAt(css, resolvePath(basePath, item.Href), fs)

\* The body of the style-sheet loop (lines 130-142) for one manifest item:
\* the new book.CSS.
cssStep(css, item, basePath, fs) ==
  IF item.MediaType # <<116, 101, 120, 116, 47, 99, 115, 115>> (* text/css *) THEN css
  ELSE cssAt(css, resolvePath(basePath, item.Href), fs)

\* A Chapter that forgets its spine position.  C1 tells it from newChapter.
newChapterUnordered(item, content, i) ==
  [Title |-> item.ID, Content |-> content, Order |-> 0]

\* Lines 172-176: the Chapter appended for spine position i (0-based).
newChapter(item, content, i) ==
  [Title |-> item.ID, Content |-> content, Order |-> i]

\* Lines 157-176 for the chapter stored at chapterPath.
chapterAt(chapters, i, item, chapterPath, fs) ==
  IF ~Has(fs, chapterPath) THEN chapters
  ELSE With(readFileContent(fs[chapterPath]), LAMBDA read :
         IF ~read.ok THEN chapters
         ELSE Append(chapters,
                newChapter(item, embedImages(read.data, Dir(chapterPath), fs), i)))

\* Lines 152-176 for the manifest item of the itemref.
chapterOf(chapters, i, item, basePath, fs) ==
  IF ~Contains(item.MediaType, <<104, 116, 109, 108>> (* html *)) /\ ~Contains(item.MediaType, <<120, 109, 108>> (* xml *))
    THEN chapters
  ELSE chapterAt(chapters, i, item, resolvePath(basePath, item.Href), fs)

\* The body of the spine loop (lines 146-177) for the itemref at 0-based
\* position i: the new book.Chapters.
spineStep(chapters, i, itemRef, items, basePath, fs) ==
  With(manifestMap(items), LAMBDA mm :
    IF itemRef \notin DOMAIN mm THEN chapters
    ELSE chapterOf(chapters, i, mm[itemRef], basePath, fs))

RECURSIVE spineLoop(_, _, _, _, _, _)
\* The spine loop from 0-based position i on.
spineLoop(chapters, i, spine, items, basePath, fs) ==
  IF i >= Len(spine) THEN chapters
  ELSE spineLoop(spineStep(chapters, i, spine[i + 1], items, basePath, fs),
                 i + 1, spine, items, basePath, fs)

RECURSIVE insertByOrder(_, _)
\* ch put into the sorted sequence before the first chapter of larger Order.
insertByOrder(sorted, ch) ==
  IF sorted = <<>> THEN <<ch>>
  ELSE IF ch.Order < sorted[1].Order THEN <<ch>> \o sorted
  ELSE <<sorted[1]>> \o insertByOrder(Tail(sorted), ch)

RECURSIVE sortChapters(_)
\* Lines 180-182: sort.Slice by Order (the Orders are distinct, so the result
\* does not depend on the sorting algorithm).
sortChapters(chapters) ==
  IF chapters = <<>> THEN <<>>
  ELSE insertByOrder(sortChapters(Take(chapters, Len(chapters) - 1)),
                     chapters[Len(chapters)])

containerPath == <<77, 69, 84, 65, 45, 73, 78, 70, 47, 99, 111, 110, 116, 97, 105, 110, 101, 114, 46, 120, 109, 108>> (* META-INF/container.xml *)

\* Lines 74-84: zip.OpenReader and the lookup map.
OpenReader ==
  /\ pc = "open"
  /\ IF ~epub.openOK
       THEN /\ err' = "failed to open epub"
            /\ pc' = "done"
            /\ UNCHANGED files
       ELSE /\ files' = epub.files
            /\ pc' = "container"
            /\ UNCHANGED err
  /\ UNCHANGED <<epub, opfPath, pkg, book, idx, call, arg, ret, sb, cli, disk>>

\* Lines 92-101 for the decoded container.
ContainerRead(container) ==
  IF ~container.ok
    THEN /\ err' = "failed to parse container.xml"
         /\ pc' = "done"
         /\ UNCHANGED opfPath
  ELSE IF Len(container.val.RootFiles) = 0
    THEN /\ err' = "no rootfile found in container.xml"
         /\ pc' = "done"
         /\ UNCHANGED opfPath
  ELSE /\ opfPath' = rootFilePath(container.val)
       /\ pc' = "package"
       /\ UNCHANGED err

\* Lines 86-101: container.xml is looked up and decoded; its first rootfile
\* names the package document.
ReadContainer ==
  /\ pc = "container"
  /\ IF ~Has(files, containerPath)
       THEN /\ err' = "container.xml not found"
            /\ pc' = "done"
            /\ UNCHANGED opfPath
       ELSE ContainerRead(parseContainer(files[containerPath]))
  /\ UNCHANGED <<epub, files, pkg, book, idx, call, arg, ret, sb, cli, disk>>

\* Lines 107-121 for the decoded package document.
PackageRead(p) ==
  IF ~p.ok
    THEN /\ err' = "failed to parse OPF"
         /\ pc' = "done"
         /\ UNCHANGED <<pkg, book>>
  ELSE /\ pkg' = p.val
       /\ book' = newBook(p.val, basePathOf(opfPath))
       /\ pc' = "css"
       /\ UNCHANGED err

\* Lines 102-121: the package document is looked up and decoded, and the Book
\* is created.
ReadPackage ==
  /\ pc = "package"
  /\ IF ~Has(files, opfPath)
       THEN /\ err' = "OPF file not found"
            /\ pc' = "done"
            /\ UNCHANGED <<pkg, book>>
       ELSE PackageRead(parsePackage(files[opfPath]))
  /\ idx' = 0
  /\ UNCHANGED <<epub, files, opfPath, call, arg, ret, sb, cli, disk>>

\* Lines 129-143: one iteration of the style-sheet loop over the manifest;
\* after the last item the spine loop starts.
ExtractCSS ==
  /\ pc = "css"
  /\ IF idx < Len(pkg.Manifest)
       THEN /\ book' = [book EXCEPT !.CSS =
                          cssStep(@, pkg.Manifest[idx + 1], book.BasePath, files)]
            /\ idx' = idx + 1
            /\ UNCHANGED pc
       ELSE /\ pc' = "spine"
            /\ idx' = 0
            /\ UNCHANGED book
  /\ UNCHANGED <<epub, files, opfPath, pkg, err, call, arg, ret, sb, cli, disk>>

\* Lines 145-177: one iteration of the spine loop.
ExtractChapter ==
  /\ pc = "spine"
  /\ idx < Len(pkg.Spine)
  /\ book' = [book EXCEPT !.Chapters =
                spineStep(@, idx, pkg.Spine[idx + 1], pkg.Manifest, book.BasePath, files)]
  /\ idx' = idx + 1
  /\ UNCHANGED <<pc, epub, files, opfPath, pkg, err, call, arg, ret, sb, cli, disk>>

\* Lines 179-184: after the spine loop the chapters are sorted and the Book
\* is returned.
SortChapters ==
  /\ pc = "spine"
  /\ idx >= Len(pkg.Spine)
  /\ book' = [book EXCEPT !.Chapters = sortChapters(@)]
  /\ pc' = "done"
  /\ UNCHANGED <<epub, files, opfPath, pkg, err, idx, call, arg, ret, sb, cli, disk>>

(***************************************************************************)
(* Book.ToHTML, extractBodyContent, escapeHTML                             *)
(***************************************************************************)

RECURSIVE ReplaceAll(_, _, _)
\* strings.ReplaceAll(s, old, new) for a non-empty old: the occurrences of
\* old that do not overlap, from the left, are replaced by new.
ReplaceAll(s, old, new) ==
  IF s = <<>> THEN <<>>
  ELSE IF HasPrefix(s, old) THEN new \o ReplaceAll(Drop(s, Len(old)), old, new)
  ELSE <<s[1]>> \o ReplaceAll(Tail(s), old, new)

\* The ampersand replaced last, after the other three.  C15 tells it from
\* escapeHTML.
escapeHTMLAmpLast(s) ==
  ReplaceAll(ReplaceAll(ReplaceAll(ReplaceAll(s,
    <<60>> (* < *), <<38, 108, 116, 59>> (* &lt; *)), <<62>> (* > *), <<38, 103, 116, 59>> (* &gt; *)), <<34>> (* " *), <<38, 113, 117, 111, 116, 59>> (* &quot; *)), <<38>> (* & *), <<38, 97, 109, 112, 59>> (* &amp; *))

\* escapeHTML, lines 530-536.
escapeHTML(s) ==
  ReplaceAll(ReplaceAll(ReplaceAll(ReplaceAll(s,
    <<38>> (* & *), <<38, 97, 109, 112, 59>> (* &amp; *)), <<60>> (* < *), <<38, 108, 116, 59>> (* &lt; *)), <<62>> (* > *), <<38, 103, 116, 59>> (* &gt; *)), <<34>> (* " *), <<38, 113, 117, 111, 116, 59>> (* &quot; *))

\* html[from:to] of Go as [ok, val]: the slice expression panics ("slice
\* bounds out of range") when from > to or to > len(html).
Slice(html, from, to) ==
  IF from > to \/ to > Len(html) THEN [ok |-> FALSE, val |-> <<>>]
  ELSE [ok |-> TRUE, val |-> SubSeq(html, from + 1, to)]

\* extractBodyContent, lines 522-527, bodyStart being the offset after the
\* opening tag.
bodySlice(html, bodyStart) ==
  With(LastIndex(ToLower(html), <<60, 47, 98, 111, 100, 121, 62>> (* </body> *)), LAMBDA bodyEnd :
    Slice(html, bodyStart, IF bodyEnd = -1 THEN Len(html) ELSE bodyEnd))

\* extractBodyContent, lines 515-527, bodyStart being the offset of "<body".
bodyFrom(html, bodyStart) ==
  With(Index(Drop(html, bodyStart), <<62>> (* > *)), LAMBDA bodyTagEnd :
    IF bodyTagEnd = -1 THEN [ok |-> TRUE, val |-> html]
    ELSE bodySlice(html, bodyStart + bodyTagEnd + 1))

\* extractBodyContent, lines 508-528, as [ok, val]; ok = FALSE is the panic
\* of the slice expression of line 527.
extractBodyContent(html) ==
  With(Index(ToLower(html), <<60, 98, 111, 100, 121>> (* <body *)), LAMBDA bodyStart :
    IF bodyStart = -1 THEN [ok |-> TRUE, val |-> html]
    ELSE bodyFrom(html, bodyStart))

\* Lines 439-478: the baseline style block, a raw string literal; each piece
\* below is one source line (tabs first) without its line feed.
baseStyleLines ==
  <<<<>>,
     <<9, 9, 98, 111, 100, 121, 32, 123>> (*     body { *),
     <<9, 9, 9, 102, 111, 110, 116, 45, 102, 97, 109, 105, 108, 121, 58, 32, 71, 101, 111, 114, 103, 105, 97, 44, 32, 39, 84, 105, 109, 101, 115, 32, 78, 101, 119, 32, 82, 111, 109, 97, 110, 39, 44, 32, 115, 101, 114, 105, 102, 59>> (*       font-family: Georgia, 'Times New Roman', serif; *),
     <<9, 9, 9, 108, 105, 110, 101, 45, 104, 101, 105, 103, 104, 116, 58, 32, 49, 46, 54, 59>> (*       line-height: 1.6; *),
     <<9, 9, 9, 109, 97, 120, 45, 119, 105, 100, 116, 104, 58, 32, 56, 48, 48, 112, 120, 59>> (*       max-width: 800px; *),
     <<9, 9, 9, 109, 97, 114, 103, 105, 110, 58, 32, 48, 32, 97, 117, 116, 111, 59>> (*       margin: 0 auto; *),
     <<9, 9, 9, 112, 97, 100, 100, 105, 110, 103, 58, 32, 52, 48, 112, 120, 32, 50, 48, 112, 120, 59>> (*       padding: 40px 20px; *),
     <<9, 9, 9, 99, 111, 108, 111, 114, 58, 32, 35, 51, 51, 51, 59>> (*       color: #333; *),
     <<9, 9, 125>> (*     } *),
     <<9, 9, 104, 49, 44, 32, 104, 50, 44, 32, 104, 51, 44, 32, 104, 52, 44, 32, 104, 53, 44, 32, 104, 54, 32, 123>> (*     h1, h2, h3, h4, h5, h6 { *),
     <<9, 9, 9, 109, 97, 114, 103, 105, 110, 45, 116, 111, 112, 58, 32, 49, 46, 53, 101, 109, 59>> (*       margin-top: 1.5em; *),
     <<9, 9, 9, 109, 97, 114, 103, 105, 110, 45, 98, 111, 116, 116, 111, 109, 58, 32, 48, 46, 53, 101, 109, 59>> (*       margin-bottom: 0.5em; *),
     <<9, 9, 125>> (*     } *),
     <<9, 9, 112, 32, 123>> (*     p { *),
     <<9, 9, 9, 109, 97, 114, 103, 105, 110, 58, 32, 48, 46, 56, 101, 109, 32, 48, 59>> (*       margin: 0.8em 0; *),
     <<9, 9, 9, 116, 101, 120, 116, 45, 97, 108, 105, 103, 110, 58, 32, 106, 117, 115, 116, 105, 102, 121, 59>> (*       text-align: justify; *),
     <<9, 9, 125>> (*     } *),
     <<9, 9, 105, 109, 103, 32, 123>> (*     img { *),
     <<9, 9, 9, 109, 97, 120, 45, 119, 105, 100, 116, 104, 58, 32, 49, 48, 48, 37, 59>> (*       max-width: 100%; *),
     <<9, 9, 9, 104, 101, 105, 103, 104, 116, 58, 32, 97, 117, 116, 111, 59>> (*       height: auto; *),
     <<9, 9, 125>> (*     } *),
     <<9, 9, 46, 99, 104, 97, 112, 116, 101, 114, 32, 123>> (*     .chapter { *),
     <<9, 9, 9, 112, 97, 103, 101, 45, 98, 114, 101, 97, 107, 45, 98, 101, 102, 111, 114, 101, 58, 32, 97, 108, 119, 97, 121, 115, 59>> (*       page-break-before: always; *),
     <<9, 9, 125>> (*     } *),
     <<9, 9, 46, 99, 104, 97, 112, 116, 101, 114, 58, 102, 105, 114, 115, 116, 45, 99, 104, 105, 108, 100, 32, 123>> (*     .chapter:first-child { *),
     <<9, 9, 9, 112, 97, 103, 101, 45, 98, 114, 101, 97, 107, 45, 98, 101, 102, 111, 114, 101, 58, 32, 97, 118, 111, 105, 100, 59>> (*       page-break-before: avoid; *),
     <<9, 9, 125>> (*     } *),
     <<9, 9, 46, 116, 105, 116, 108, 101, 45, 112, 97, 103, 101, 32, 123>> (*     .title-page { *),
     <<9, 9, 9, 116, 101, 120, 116, 45, 97, 108, 105, 103, 110, 58, 32, 99, 101, 110, 116, 101, 114, 59>> (*       text-align: center; *),
     <<9, 9, 9, 112, 97, 100, 100, 105, 110, 103, 58, 32, 49, 48, 48, 112, 120, 32, 48, 59>> (*       padding: 100px 0; *),
     <<9, 9, 125>> (*     } *),
     <<9, 9, 46, 116, 105, 116, 108, 101, 45, 112, 97, 103, 101, 32, 104, 49, 32, 123>> (*     .title-page h1 { *),
     <<9, 9, 9, 102, 111, 110, 116, 45, 115, 105, 122, 101, 58, 32, 50, 46, 53, 101, 109, 59>> (*       font-size: 2.5em; *),
     <<9, 9, 9, 109, 97, 114, 103, 105, 110, 45, 98, 111, 116, 116, 111, 109, 58, 32, 48, 46, 53, 101, 109, 59>> (*       margin-bottom: 0.5em; *),
     <<9, 9, 125>> (*     } *),
     <<9, 9, 46, 116, 105, 116, 108, 101, 45, 112, 97, 103, 101, 32, 46, 97, 117, 116, 104, 111, 114, 32, 123>> (*     .title-page .author { *),
     <<9, 9, 9, 102, 111, 110, 116, 45, 115, 105, 122, 101, 58, 32, 49, 46, 51, 101, 109, 59>> (*       font-size: 1.3em; *),
     <<9, 9, 9, 99, 111, 108, 111, 114, 58, 32, 35, 54, 54, 54, 59>> (*       color: #666; *),
     <<9, 9, 125>> (*     } *),
     <<9>> (*    *)>>

RECURSIVE JoinLines(_)
\* The lines with a line feed between them.
JoinLines(lines) ==
  IF Len(lines) = 1 THEN lines[1]
  ELSE lines[1] \o <<10>> \o JoinLines(Tail(lines))

\* Lines 439-478: the baseline style block.
baseStyle == JoinLines(baseStyleLines)

RECURSIVE styleSheets(_)
\* Lines 479-482: each collected style sheet and a line feed.
styleSheets(css) ==
  IF css = <<>> THEN <<>>
  ELSE css[1] \o <<10>> \o styleSheets(Tail(css))

\* Lines 433-484: the head of the document.
htmlHead(b) ==
  <<60, 33, 68, 79, 67, 84, 89, 80, 69, 32, 104, 116, 109, 108, 62>> (* <!DOCTYPE html> *) \o <<10>> \o <<60, 104, 116, 109, 108, 62>> (* <html> *) \o <<10>> \o <<60, 104, 101, 97, 100, 62>> (* <head> *) \o <<10>>
  \o <<60, 109, 101, 116, 97, 32, 99, 104, 97, 114, 115, 101, 116, 61, 34, 85, 84, 70, 45, 56, 34, 62>> (* <meta charset="UTF-8"> *) \o <<10>>
  \o <<60, 116, 105, 116, 108, 101, 62>> (* <title> *) \o escapeHTML(b.Title) \o <<60, 47, 116, 105, 116, 108, 101, 62>> (* </title> *) \o <<10>>
  \o <<60, 115, 116, 121, 108, 101, 62>> (* <style> *) \o <<10>>
  \o baseStyle
  \o styleSheets(b.CSS)
  \o <<60, 47, 115, 116, 121, 108, 101, 62>> (* </style> *) \o <<10>>
  \o <<60, 47, 104, 101, 97, 100, 62>> (* </head> *) \o <<10>> \o <<60, 98, 111, 100, 121, 62>> (* <body> *) \o <<10>>

\* Lines 489-491: the author block.
authorBlock(author) ==
  IF author # <<>>
    THEN <<60, 112, 32, 99, 108, 97, 115, 115, 61, 34, 97, 117, 116, 104, 111, 114, 34, 62>> (* <p class="author"> *) \o escapeHTML(author) \o <<60, 47, 112, 62>> (* </p> *) \o <<10>>
  ELSE <<>>

\* Lines 486-492: the title page.
titlePage(b) ==
  <<60, 100, 105, 118, 32, 99, 108, 97, 115, 115, 61, 34, 116, 105, 116, 108, 101, 45, 112, 97, 103, 101, 34, 62>> (* <div class="title-page"> *) \o <<10>>
  \o <<60, 104, 49, 62>> (* <h1> *) \o escapeHTML(b.Title) \o <<60, 47, 104, 49, 62>> (* </h1> *) \o <<10>>
  \o authorBlock(b.Author)
  \o <<60, 47, 100, 105, 118, 62>> (* </div> *) \o <<10>>

\* Lines 496-500: one chapter in its wrapper.
chapterBlock(content) ==
  <<60, 100, 105, 118, 32, 99, 108, 97, 115, 115, 61, 34, 99, 104, 97, 112, 116, 101, 114, 34, 62>> (* <div class="chapter"> *) \o <<10>> \o content \o <<10>> \o <<60, 47, 100, 105, 118, 62>> (* </div> *) \o <<10>>

\* Line 503.
htmlTail == <<60, 47, 98, 111, 100, 121, 62>> (* </body> *) \o <<10>> \o <<60, 47, 104, 116, 109, 108, 62>> (* </html> *)

\* Lines 431-492: the builder is created and the head and the title page are
\* written.
WriteHead ==
  /\ pc = "tohtml"
  /\ sb' = htmlHead(book) \o titlePage(book)
  /\ idx' = 0
  /\ pc' = "chapters"
  /\ UNCHANGED <<epub, files, opfPath, pkg, book, err, call, arg, ret, cli, disk>>

\* Lines 495-501 for the body extracted from the chapter.
ChapterWritten(content) ==
  IF ~content.ok
    THEN /\ err' = "panic: slice bounds out of range"
         /\ pc' = "panicked"
         /\ UNCHANGED <<sb, idx>>
  ELSE /\ sb' = sb \o chapterBlock(content.val)
       /\ idx' = idx + 1
       /\ UNCHANGED <<pc, err>>

\* Lines 495-501: one iteration of the chapter loop.
WriteChapter ==
  /\ pc = "chapters"
  /\ idx < Len(book.Chapters)
  /\ ChapterWritten(extractBodyContent(book.Chapters[idx + 1].Content))
  /\ UNCHANGED <<epub, files, opfPath, pkg, book, call, arg, ret, cli, disk>>

\* Lines 503-505: the tail is written and the string returned.
WriteTail ==
  /\ pc = "chapters"
  /\ idx >= Len(book.Chapters)
  /\ sb' = sb \o htmlTail
  /\ pc' = "returned"
  /\ UNCHANGED <<epub, files, opfPath, pkg, book, err, idx, call, arg, ret, cli, disk>>

(***************************************************************************)
(* The command (cmd/root.go: runConvert) and converter.Convert             *)
(* (internal/converter/converter.go).  Lengths and the scale factor are    *)
(* float64 in the code; here they are counted in hundredths.               *)
(***************************************************************************)

\* The command is not running.
NoCli ==
  [args |-> <<>>, outputPath |-> <<>>, scale |-> 0, pageSize |-> <<>>,
   landscape |-> FALSE, exists |-> FALSE, output |-> <<>>]

\* Convert has touched no file and has not called the rendering engine.
NoDisk ==
  [tmp |-> "none", tmpErr |-> "none", html |-> <<>>, render |-> "none",
   page |-> <<>>, out |-> "none", outPath |-> <<>>]

\* filepath.Ext: the suffix that starts at the last dot of the last element
\* of the path, "" when that element has no dot.
Ext(p) ==
  With({i \in DOMAIN p : p[i] = 46 (* '.' *) /\ \A j \in i..Len(p) : p[j] # 47 (* '/' *)}, LAMBDA dots :
    IF dots = {} THEN <<>> ELSE Drop(p, Max(dots) - 1))

\* strings.TrimSuffix
TrimSuffix(s, suffix) ==
  IF HasSuffix(s, suffix) THEN Take(s, Len(s) - Len(suffix)) ELSE s

\* runConvert, lines 71-76: the output path.
outputPathOf(args, outputPath) ==
  IF outputPath # <<>> THEN outputPath
  ELSE TrimSuffix(args[1], Ext(args[1])) \o <<46, 112, 100, 102>> (* .pdf *)

\* runConvert, lines 84-87: validSizes.
validSizes == {<<65, 52>> (* A4 *), <<65, 53>> (* A5 *), <<65, 51>> (* A3 *), <<76, 101, 116, 116, 101, 114>> (* Letter *), <<76, 101, 103, 97, 108>> (* Legal *), <<84, 97, 98, 108, 111, 105, 100>> (* Tabloid *)}

\* runConvert, lines 62-90: the error of the first validation that fails,
\* "nil" when all pass.
validate(c) ==
  IF ~c.exists THEN "input file not found"
  ELSE IF ~HasSuffix(ToLower(c.args[1]), <<46, 101, 112, 117, 98>> (* .epub *)) THEN "input file must be an EPUB file"
  ELSE IF c.scale < 10 \/ c.scale > 200 THEN "scale must be between 0.1 and 2.0"
  ELSE IF c.pageSize \notin validSizes THEN "invalid page size"
  ELSE "nil"

\* rootCmd and runConvert, lines 39 and 59-107: cobra rejects a command line
\* without a positional argument; runConvert validates the input path,
\* chooses the output path, validates scale and page size, and calls Parse.
RunConvert ==
  /\ pc = "cmd"
  /\ IF Len(cli.args) < 1
       THEN /\ err' = "requires at least 1 arg(s)"
            /\ pc' = "exit"
            /\ UNCHANGED cli
       ELSE /\ err' = validate(cli)
            /\ pc' = IF validate(cli) = "nil" THEN "open" ELSE "exit"
            /\ cli' = IF validate(cli) \in {"input file not found",
                                            "input file must be an EPUB file"}
                        THEN cli
                      ELSE [cli EXCEPT !.output = outputPathOf(cli.args, cli.outputPath)]
  /\ UNCHANGED <<epub, files, opfPath, pkg, book, idx, call, arg, ret, sb, disk>>

\* runConvert, lines 107-132: Parse has returned; on an error the command
\* fails, else Convert is called and starts with ToHTML (converter.go:38).
ParseReturned ==
  /\ pc = "done"
  /\ cli # NoCli
  /\ IF err # "nil"
       THEN /\ err' = "failed to parse EPUB"
            /\ pc' = "exit"
       ELSE /\ pc' = "tohtml"
            /\ UNCHANGED err
  /\ UNCHANGED <<epub, files, opfPath, pkg, book, idx, call, arg, ret, sb, cli, disk>>

\* Convert, lines 40-45: the temporary file is created; when that fails
\* Convert returns before the removal is deferred.
CreateTemp ==
  /\ pc = "returned"
  /\ cli # NoCli
  /\ \E ok \in BOOLEAN :
       IF ok
         THEN /\ disk' = [disk EXCEPT !.tmp = "empty"]
              /\ pc' = "tmp"
              /\ UNCHANGED err
         ELSE /\ disk' = [disk EXCEPT !.tmpErr = "create"]
              /\ err' = "failed to create temp file"
              /\ pc' = "exit"
  /\ UNCHANGED <<epub, files, opfPath, pkg, book, idx, call, arg, ret, sb, cli>>

\* Convert, lines 47-51: the document is written to the temporary file and
\* the file is closed; when the write fails Convert returns, and the
\* deferred os.Remove of line 45 runs.
WriteTemp ==
  /\ pc = "tmp"
  /\ \E ok \in BOOLEAN :
       IF ok
         THEN /\ disk' = [disk EXCEPT !.tmp = "written", !.html = sb]
              /\ pc' = "render"
              /\ UNCHANGED err
         ELSE /\ disk' = [disk EXCEPT !.tmp = "removed", !.tmpErr = "write"]
              /\ err' = "failed to write temp file"
              /\ pc' = "exit"
  /\ UNCHANGED <<epub, files, opfPath, pkg, book, idx, call, arg, ret, sb, cli>>

\* getPageDimensions, lines 108-125: width and height in hundredths of an
\* inch.
getPageDimensions(pageSize) ==
  CASE pageSize = <<76, 101, 116, 116, 101, 114>> (* Letter *) -> <<850, 1100>>
    [] pageSize = <<76, 101, 103, 97, 108>> (* Legal *) -> <<850, 1400>>
    [] pageSize = <<84, 97, 98, 108, 111, 105, 100>> (* Tabloid *) -> <<1100, 1700>>
    [] pageSize = <<65, 51>> (* A3 *) -> <<1169, 1654>>
    [] pageSize = <<65, 52>> (* A4 *) -> <<827, 1169>>
    [] pageSize = <<65, 53>> (* A5 *) -> <<583, 827>>
    [] OTHER -> <<827, 1169>>

\* Convert, lines 71-74: the page, turned when landscape.
pageOf(pageSize, landscape) ==
  With(getPageDimensions(pageSize), LAMBDA d :
    IF landscape THEN <<d[2], d[1]>> ELSE d)

\* Rendering fails and Convert goes on to write the file all the same.  C19
\* tells it from afterRun.
afterRunUnchecked(result) == "write"

\* Convert, lines 95-97: Convert returns when chromedp.Run returned an error
\* (the engine failed, or the two minutes of line 58 ran out).
afterRun(result) == IF result # "ok" THEN "exit" ELSE "write"

\* Convert, lines 53-97: the rendering engine navigates to the temporary
\* file and prints it; it succeeds, fails, or runs out of time.  When Convert
\* returns here the deferred os.Remove runs.
RunChrome ==
  /\ pc = "render"
  /\ \E result \in {"ok", "error", "timeout"} :
       /\ pc' = afterRun(result)
       /\ disk' = [disk EXCEPT !.render = result,
                               !.page = pageOf(cli.pageSize, cli.landscape),
                               !.tmp = IF afterRun(result) = "exit" THEN "removed" ELSE @]
       /\ err' = IF afterRun(result) = "exit" THEN "failed to generate PDF" ELSE err
  /\ UNCHANGED <<epub, files, opfPath, pkg, book, idx, call, arg, ret, sb, cli>>

\* Convert, lines 99-104: the PDF is written to the output path (a failed
\* write may leave a file behind); Convert returns and the deferred
\* os.Remove runs.
WritePDF ==
  /\ pc = "write"
  /\ \E out \in {"written", "partial", "none"} :
       /\ disk' = [disk EXCEPT !.out = out,
                               !.outPath = IF out = "none" THEN @ ELSE cli.output,
                               !.tmp = "removed"]
       /\ err' = IF out = "written" THEN "nil" ELSE "failed to write PDF"
  /\ pc' = "exit"
  /\ UNCHANGED <<epub, files, opfPath, pkg, book, idx, call, arg, ret, sb, cli>>

(***************************************************************************)
(* The archives given to Parse                                             *)
(***************************************************************************)

\* The longest spine of the archives checked.
MaxSpine == 3

NoXml == [kind |-> "none"]

\* A zip entry holding data.
Entry(data) == [data |-> data, openErr |-> FALSE, xml |-> NoXml]

\* A zip entry whose Open() fails.
BadEntry == [data |-> <<>>, openErr |-> TRUE, xml |-> NoXml]

\* A zip entry holding the XML document doc.
XmlEntry(doc) == [data |-> <<60, 63, 120, 109, 108, 63, 62>> (* <?xml?> *), openErr |-> FALSE, xml |-> doc]

Item(id, href, mediaType) == [ID |-> id, Href |-> href, MediaType |-> mediaType]

xhtml == <<97, 112, 112, 108, 105, 99, 97, 116, 105, 111, 110, 47, 120, 104, 116, 109, 108, 43, 120, 109, 108>> (* application/xhtml+xml *)

\* The manifest items of the archives; dir is "" or "OEBPS/", the place of
\* the content relative to the package document.
ItemC1(dir) == Item(<<99, 49>> (* c1 *), dir \o <<99, 104, 49, 46, 120, 104, 116, 109, 108>> (* ch1.xhtml *), xhtml)
ItemC2(dir) == Item(<<99, 50>> (* c2 *), dir \o <<116, 101, 120, 116, 47, 99, 104, 50, 46, 120, 104, 116, 109, 108>> (* text/ch2.xhtml *), <<116, 101, 120, 116, 47, 104, 116, 109, 108>> (* text/html *))
ItemI1(dir) == Item(<<105, 49>> (* i1 *), dir \o <<105, 109, 97, 103, 101, 115, 47, 97, 46, 112, 110, 103>> (* images/a.png *), <<105, 109, 97, 103, 101, 47, 112, 110, 103>> (* image/png *))
ItemG1(dir) == Item(<<103, 49>> (* g1 *), dir \o <<103, 111, 110, 101, 46, 120, 104, 116, 109, 108>> (* gone.xhtml *), xhtml)
ItemB1(dir) == Item(<<98, 49>> (* b1 *), dir \o <<98, 97, 100, 46, 120, 104, 116, 109, 108>> (* bad.xhtml *), xhtml)
ItemS1(dir) == Item(<<115, 49>> (* s1 *), dir \o <<115, 116, 121, 108, 101, 46, 99, 115, 115>> (* style.css *), <<116, 101, 120, 116, 47, 99, 115, 115>> (* text/css *))
ItemS2(dir) == Item(<<115, 50>> (* s2 *), dir \o <<103, 111, 110, 101, 46, 99, 115, 115>> (* gone.css *), <<116, 101, 120, 116, 47, 99, 115, 115>> (* text/css *))
ItemS3(dir) == Item(<<115, 51>> (* s3 *), dir \o <<98, 97, 100, 46, 99, 115, 115>> (* bad.css *), <<116, 101, 120, 116, 47, 99, 115, 115>> (* text/css *))
ItemS4(dir) == Item(<<115, 52>> (* s4 *), dir \o <<116, 101, 120, 116, 47, 101, 120, 116, 114, 97, 46, 99, 115, 115>> (* text/extra.css *), <<116, 101, 120, 116, 47, 99, 115, 115>> (* text/css *))
ItemS5(dir) == Item(<<115, 53>> (* s5 *), dir \o <<115, 116, 121, 108, 101, 46, 99, 115, 115>> (* style.css *), <<116, 101, 120, 116, 47, 67, 83, 83>> (* text/CSS *))
ItemN1(dir) == Item(<<110, 49>> (* n1 *), dir \o <<116, 111, 99, 46, 110, 99, 120>> (* toc.ncx *), <<97, 112, 112, 108, 105, 99, 97, 116, 105, 111, 110, 47, 120, 45, 100, 116, 98, 110, 99, 120, 43, 120, 109, 108>> (* application/x-dtbncx+xml *))
ItemD1(dir) == Item(<<99, 49>> (* c1 *), dir \o <<116, 101, 120, 116, 47, 99, 104, 50, 46, 120, 104, 116, 109, 108>> (* text/ch2.xhtml *), xhtml)

\* The idrefs a spine is made of: "zz" is in no manifest.
SpineIds == {<<99, 49>> (* c1 *), <<99, 50>> (* c2 *), <<105, 49>> (* i1 *), <<103, 49>> (* g1 *), <<98, 49>> (* b1 *), <<110, 49>> (* n1 *), <<122, 122>> (* zz *)}

RECURSIVE SeqsUpTo(_, _)
\* The sequences over S of length at most n.
SeqsUpTo(S, n) ==
  IF n = 0 THEN {<<>>}
  ELSE LET shorter == SeqsUpTo(S, n - 1)
       IN  shorter \cup {Append(q, x) : q \in {r \in shorter : Len(r) = n - 1}, x \in S}

Spines == SeqsUpTo(SpineIds, MaxSpine)

\* The manifests: in reading order, in another order, with an id declared
\* twice, with two style sheets, and empty.
Manifests(dir) ==
  { <<ItemC1(dir), ItemC2(dir), ItemI1(dir), ItemG1(dir), ItemB1(dir), ItemS1(dir)>>,
    <<ItemS1(dir), ItemN1(dir), ItemB1(dir), ItemS3(dir), ItemC2(dir), ItemC1(dir)>>,
    <<ItemC2(dir), ItemC1(dir), ItemS2(dir), ItemD1(dir), ItemS1(dir)>>,
    <<ItemS4(dir), ItemC1(dir), ItemS5(dir), ItemS1(dir), ItemC2(dir)>>,
    <<>> }

Package(manifest, spine) ==
  [kind |-> "package",
   Metadata |-> [Title |-> <<84, 38, 60>> (* T&< *), Creator |-> <<65>> (* A *)],
   Manifest |-> manifest, Spine |-> spine]

ContainerDoc(paths) ==
  [kind |-> "container",
   RootFiles |-> [i \in DOMAIN paths |->
                    [FullPath |-> paths[i], MediaType |-> <<97, 112, 112, 108, 105, 99, 97, 116, 105, 111, 110, 47, 111, 101, 98, 112, 115, 45, 112, 97, 99, 107, 97, 103, 101, 43, 120, 109, 108>> (* application/oebps-package+xml *)]]]

pngData == <<137, 80, 78>>

\* The content entries, stored under OEBPS/.
ContentFiles ==
  (<<79, 69, 66, 80, 83, 47, 99, 104, 49, 46, 120, 104, 116, 109, 108>> (* OEBPS/ch1.xhtml *) :> Entry(<<60, 98, 111, 100, 121, 62, 60, 105, 109, 103, 32, 115, 114, 99, 61, 34, 105, 109, 97, 103, 101, 115, 47, 97, 46, 112, 110, 103, 34, 47, 62, 49, 60, 47, 98, 111, 100, 121, 62>> (* <body><img src="images/a.png"/>1</body> *)))
  @@ (<<79, 69, 66, 80, 83, 47, 116, 101, 120, 116, 47, 99, 104, 50, 46, 120, 104, 116, 109, 108>> (* OEBPS/text/ch2.xhtml *) :> Entry(<<60, 112, 62, 60, 105, 109, 103, 32, 115, 114, 99, 61, 39, 46, 46, 47, 105, 109, 97, 103, 101, 115, 47, 97, 46, 112, 110, 103, 39, 62, 60, 47, 112, 62>> (* <p><img src='../images/a.png'></p> *)))
  @@ (<<79, 69, 66, 80, 83, 47, 105, 109, 97, 103, 101, 115, 47, 97, 46, 112, 110, 103>> (* OEBPS/images/a.png *) :> Entry(pngData))
  @@ (<<79, 69, 66, 80, 83, 47, 98, 97, 100, 46, 120, 104, 116, 109, 108>> (* OEBPS/bad.xhtml *) :> BadEntry)
  @@ (<<79, 69, 66, 80, 83, 47, 98, 97, 100, 46, 99, 115, 115>> (* OEBPS/bad.css *) :> BadEntry)
  @@ (<<79, 69, 66, 80, 83, 47, 115, 116, 121, 108, 101, 46, 99, 115, 115>> (* OEBPS/style.css *) :> Entry(<<112, 123, 98, 97, 99, 107, 103, 114, 111, 117, 110, 100, 58, 117, 114, 108, 40, 105, 109, 97, 103, 101, 115, 47, 97, 46, 112, 110, 103, 41, 125>> (* p{background:url(images/a.png)} *)))
  @@ (<<79, 69, 66, 80, 83, 47, 116, 101, 120, 116, 47, 101, 120, 116, 114, 97, 46, 99, 115, 115>> (* OEBPS/text/extra.css *) :> Entry(<<105, 123, 98, 97, 99, 107, 103, 114, 111, 117, 110, 100, 58, 117, 114, 108, 40, 39, 46, 46, 47, 105, 109, 97, 103, 101, 115, 47, 97, 46, 112, 110, 103, 39, 41, 125>> (* i{background:url('../images/a.png')} *)))
  @@ (<<79, 69, 66, 80, 83, 47, 116, 111, 99, 46, 110, 99, 120>> (* OEBPS/toc.ncx *) :> Entry(<<60, 110, 99, 120, 47, 62>> (* <ncx/> *)))

\* An archive: the container entry (absent when container is NoXml and
\* containerEntry is FALSE), the package entry at opf, and the content.
Archive(openOK, containerEntry, opf, opfEntry) ==
  [openOK |-> openOK,
   files |-> containerEntry @@ (opf :> opfEntry) @@ ContentFiles]

opfInDir == <<79, 69, 66, 80, 83, 47, 99, 111, 110, 116, 101, 110, 116, 46, 111, 112, 102>> (* OEBPS/content.opf *)

opfAtTop == <<99, 111, 110, 116, 101, 110, 116, 46, 111, 112, 102>> (* content.opf *)

opfMissing == <<79, 69, 66, 80, 83, 47, 109, 105, 115, 115, 105, 110, 103, 46, 111, 112, 102>> (* OEBPS/missing.opf *)

\* The well-formed archives: the package document in OEBPS/ or at the top
\* level, each manifest, each spine.
GoodArchives ==
  { Archive(TRUE, containerPath :> XmlEntry(ContainerDoc(<<opfInDir>>)),
            opfInDir, XmlEntry(Package(m, sp))) :
      m \in Manifests(<<>>), sp \in Spines }
  \cup
  { Archive(TRUE, containerPath :> XmlEntry(ContainerDoc(<<opfAtTop>>)),
            opfAtTop, XmlEntry(Package(m, sp))) :
      m \in Manifests(<<79, 69, 66, 80, 83, 47>> (* OEBPS/ *)), sp \in {q \in Spines : Len(q) <= 2} }

SomePackage ==
  Package(<<ItemC1(<<>>), ItemS1(<<>>), ItemC2(<<>>)>>, <<<<99, 50>> (* c2 *), <<99, 49>> (* c1 *)>>)

\* The archives with a structural defect, and with a second rootfile.
OddArchives ==
  LET okOpf == XmlEntry(SomePackage)
      okContainer == containerPath :> XmlEntry(ContainerDoc(<<opfInDir>>))
  IN  { Archive(FALSE, okContainer, opfInDir, okOpf),
        Archive(TRUE, <<77, 69, 84, 65, 45, 73, 78, 70, 47, 67, 111, 110, 116, 97, 105, 110, 101, 114, 46, 120, 109, 108>> (* META-INF/Container.xml *) :> XmlEntry(ContainerDoc(<<opfInDir>>)),
                opfInDir, okOpf),
        Archive(TRUE, containerPath :> BadEntry, opfInDir, okOpf),
        Archive(TRUE, containerPath :> Entry(<<60, 120>> (* <x *)), opfInDir, okOpf),
        Archive(TRUE, containerPath :> XmlEntry(SomePackage), opfInDir, okOpf),
        Archive(TRUE, containerPath :> XmlEntry(ContainerDoc(<<>>)), opfInDir, okOpf),
        Archive(TRUE, containerPath :> XmlEntry(ContainerDoc(<<opfMissing>>)),
                opfInDir, okOpf),
        Archive(TRUE, containerPath :> XmlEntry(ContainerDoc(<<opfMissing, opfInDir>>)),
                opfInDir, okOpf),
        Archive(TRUE, containerPath :> XmlEntry(ContainerDoc(<<opfInDir, opfMissing>>)),
                opfInDir, okOpf),
        Archive(TRUE, containerPath :> XmlEntry(ContainerDoc(<<opfInDir, opfAtTop>>)),
                opfInDir, okOpf),
        Archive(TRUE, okContainer, opfInDir, BadEntry),
        Archive(TRUE, okContainer, opfInDir, Entry(<<60, 112, 97, 99, 107, 97, 103, 101>> (* <package *))),
        Archive(TRUE, okContainer, opfInDir, XmlEntry(ContainerDoc(<<opfInDir>>))) }

Archives == GoodArchives \cup OddArchives

\* The inliner is not running.
NoArg ==
  [src |-> <<>>, basePath |-> <<>>, files |-> <<>>, parts |-> <<>>, content |-> <<>>]

NoRet ==
  [dataURI |-> <<>>, cleanSrc |-> <<>>, imagePath |-> <<>>, lookups |-> <<>>,
   content |-> <<>>, again |-> <<>>]

\* Parse is called on an archive.
Init ==
  /\ epub \in Archives
  /\ pc = "open"
  /\ files = <<>>
  /\ opfPath = <<>>
  /\ pkg = NoXml
  /\ book = NilBook
  /\ err = "nil"
  /\ idx = 0
  /\ call = "none"
  /\ arg = NoArg
  /\ ret = NoRet
  /\ sb = <<>>
  /\ cli = NoCli
  /\ disk = NoDisk

Next ==
  \/ OpenReader
  \/ ReadContainer
  \/ ReadPackage
  \/ ExtractCSS
  \/ ExtractChapter
  \/ SortChapters

Spec == Init /\ [][Next]_vars

(***************************************************************************)
(* The inliner on its own: resolveAndEmbed on a reference, a base          *)
(* directory and an archive, then embedImages on markup that holds the     *)
(* reference.                                                              *)
(***************************************************************************)

\* The most leading "../" segments of a reference.
MaxUp == 3

\* The most bytes of an archive entry.
MaxData == 3

RECURSIVE Ups(_)
\* k times "../"
Ups(k) == IF k = 0 THEN <<>> ELSE <<46, 46, 47>> (* ../ *) \o Ups(k - 1)

\* The references that climb: up to MaxUp "../" before a remainder.
UpRefs ==
  {Ups(k) \o r : k \in 0..MaxUp,
                 r \in {<<97, 46, 112, 110, 103>> (* a.png *), <<105, 109, 97, 103, 101, 115, 47, 97, 46, 112, 110, 103>> (* images/a.png *), <<105, 109, 97, 103, 101, 115, 47, 46, 46, 47, 46, 46, 47, 97, 46, 112, 110, 103>> (* images/../../a.png *), <<46, 46>> (* .. *)}}

\* The other references: schemes, fragments, escapes, extensions.
OtherRefs ==
  {<<100, 97, 116, 97, 58, 97, 46, 112, 110, 103>> (* data:a.png *), <<100, 97, 116, 97, 58, 105, 109, 97, 103, 101, 47, 112, 110, 103, 59, 98, 97, 115, 101, 54, 52, 44, 105, 86, 66, 79>> (* data:image/png;base64,iVBO *), <<104, 116, 116, 112, 58, 47, 47, 104, 47, 97, 46, 112, 110, 103>> (* http://h/a.png *),
   <<104, 116, 116, 112, 115, 58, 47, 47, 104, 47, 97, 46, 112, 110, 103>> (* https://h/a.png *), <<72, 84, 84, 80, 58, 47, 47, 104, 47, 97, 46, 112, 110, 103>> (* HTTP://h/a.png *), <<97, 46, 112, 110, 103, 35, 120>> (* a.png#x *), <<112, 105, 99, 46, 115, 118, 103, 35, 108, 97, 121, 101, 114, 49>> (* pic.svg#layer1 *),
   <<97, 35, 46, 112, 110, 103>> (* a#.png *), <<97, 37, 50, 69, 112, 110, 103>> (* a%2Epng *), <<109, 121, 37, 50, 48, 112, 105, 99, 46, 112, 110, 103>> (* my%20pic.png *), <<109, 121, 43, 112, 105, 99, 46, 112, 110, 103>> (* my+pic.png *), <<97, 37, 122, 122, 46, 112, 110, 103>> (* a%zz.png *),
   <<65, 46, 80, 78, 71>> (* A.PNG *), <<97, 46, 74, 112, 69, 103>> (* a.JpEg *), <<97, 46, 106, 112, 103>> (* a.jpg *), <<97, 46, 103, 105, 102>> (* a.gif *), <<112, 105, 99, 46, 115, 118, 103>> (* pic.svg *), <<97, 46, 119, 101, 98, 112>> (* a.webp *),
   <<97, 46, 98, 109, 112>> (* a.bmp *), <<97, 46, 105, 99, 111>> (* a.ico *), <<97, 46, 116, 120, 116>> (* a.txt *), <<99, 104, 49, 46, 120, 104, 116, 109, 108>> (* ch1.xhtml *), <<97, 46, 112, 110, 103, 120>> (* a.pngx *), <<112, 110, 103>> (* png *),
   <<46, 47, 97, 46, 112, 110, 103>> (* ./a.png *), <<47, 97, 46, 112, 110, 103>> (* /a.png *), <<120, 47, 46, 46, 47, 46, 46, 47, 97, 46, 112, 110, 103>> (* x/../../a.png *)}

Refs == UpRefs \cup OtherRefs

\* The directories of chapters and style sheets: path.Dir of a stored path.
Bases == {<<46>> (* . *), <<79, 69, 66, 80, 83>> (* OEBPS *), <<79, 69, 66, 80, 83, 47, 116, 101, 120, 116>> (* OEBPS/text *), <<47, 79, 69, 66, 80, 83>> (* /OEBPS *)}

\* The three stored paths under which the reference may be found.
Candidates(src, basePath) ==
  <<resolveRelativePath(basePath, cleanSrcOf(src)),
    cleanSrcOf(src),
    normalizePath(resolveRelativePath(basePath, cleanSrcOf(src)))>>

otherPath == <<122, 122, 47, 111, 116, 104, 101, 114, 46, 112, 110, 103>> (* zz/other.png *)

\* The entry stored for candidate i under key: n bytes that tell the
\* candidates apart, or, when bad, an entry that cannot be opened.
CandidateEntry(i, key, n, bad) ==
  IF bad THEN BadEntry
  ELSE Entry(Take(<<200 + i>> \o key, Min({n, Len(key) + 1})))

\* An archive that holds the candidates in mask, each with n bytes, and one
\* entry more; when bad, the first of them cannot be opened.
EmbedFiles(cands, mask, n, bad) ==
  [key \in {cands[i] : i \in mask} \cup {otherPath} |->
     IF \A i \in mask : cands[i] # key THEN Entry(<<7, 7>>)
     ELSE With(Min({i \in mask : cands[i] = key}), LAMBDA i :
            CandidateEntry(i, key, n, bad /\ i = Min(mask)))]

\* The archives tried, as <<mask, n, bad>>: every set of candidates with
\* entries of MaxData bytes, all candidates with shorter entries, and some
\* with an entry that cannot be opened.
Stores ==
  {<<mask, MaxData, FALSE>> : mask \in SUBSET {1, 2, 3}}
  \cup {<<{1, 2, 3}, n, FALSE>> : n \in 0..MaxData}
  \cup {<<mask, MaxData, TRUE>> : mask \in {{1, 2, 3}, {2, 3}, {3}}}

\* One part of a piece of markup: plain text (in pre), or a reference src of
\* the family kind with the text before it, its opening quote, and the text
\* after it up to the end of the match.
Text(s) == [kind |-> "text", pre |-> s, quote |-> <<>>, src |-> <<>>, post |-> <<>>]

Ref(kind, pre, quote, src, post) ==
  [kind |-> kind, pre |-> pre, quote |-> quote, src |-> src, post |-> post]

Templates == {"text", "img", "imgq", "xlink", "url", "urlq", "two", "near", "nest", "gt"}

\* The markup of each template around the reference src.
Template(t, src) ==
  CASE t = "text" -> <<Text(<<60, 112, 62, 115, 114, 99, 32, 97, 110, 100, 32, 117, 114, 108, 44, 32, 98, 117, 116, 32, 110, 111, 32, 114, 101, 102, 101, 114, 101, 110, 99, 101, 60, 47, 112, 62>> (* <p>src and url, but no reference</p> *))>>
    [] t = "img" ->
         <<Text(<<60, 112, 62>> (* <p> *)), Ref("img", <<60, 105, 109, 103, 32, 115, 114, 99, 61>> (* <img src= *), <<34>> (* " *), src, <<34>> (* " *)), Text(<<47, 62, 60, 47, 112, 62>> (* /></p> *))>>
    [] t = "imgq" ->
         <<Ref("img", <<60, 73, 77, 71, 32, 97, 108, 116, 61, 39, 120, 32, 121, 39>> (* <IMG alt='x y' *) \o <<10>> \o <<83, 82, 67, 32, 61, 32>> (* SRC =  *), <<39>> (* ' *), src, <<39>> (* ' *)),
           Text(<<32, 119, 105, 100, 116, 104, 61, 34, 49, 34, 62>> (*  width="1"> *))>>
    [] t = "xlink" ->
         <<Text(<<60, 115, 118, 103, 62, 60, 105, 109, 97, 103, 101, 32>> (* <svg><image  *)), Ref("xlink", <<120, 108, 105, 110, 107, 58, 104, 114, 101, 102, 61>> (* xlink:href= *), <<34>> (* " *), src, <<34>> (* " *)),
           Text(<<47, 62, 60, 47, 115, 118, 103, 62>> (* /></svg> *))>>
    [] t = "url" ->
         <<Text(<<112, 123, 98, 97, 99, 107, 103, 114, 111, 117, 110, 100, 58>> (* p{background: *)), Ref("url", <<117, 114, 108, 40>> (* url( *), <<>>, src, <<41>> (* ) *)), Text(<<125>> (* } *))>>
    [] t = "urlq" ->
         <<Text(<<60, 112, 32, 115, 116, 121, 108, 101, 61, 34, 98, 97, 99, 107, 103, 114, 111, 117, 110, 100, 58, 32>> (* <p style="background:  *)), Ref("url", <<85, 82, 76, 32, 40, 32>> (* URL (  *), <<39>> (* ' *), src, <<39, 32, 41>> (* ' ) *)),
           Text(<<34, 62>> (* "> *))>>
    [] t = "two" ->
         <<Ref("img", <<60, 105, 109, 103, 32, 115, 114, 99, 61>> (* <img src= *), <<39>> (* ' *), src, <<39>> (* ' *)), Text(<<62, 60, 105, 32, 115, 116, 121, 108, 101, 61, 39, 120, 58>> (* ><i style='x: *)),
           Ref("url", <<117, 114, 108, 40>> (* url( *), <<>>, src, <<41>> (* ) *)), Text(<<39, 62>> (* '> *))>>
    [] t = "nest" ->
         <<Text(<<60, 105, 109, 103, 32, 115, 114, 99, 61, 34>> (* <img src=" *)), Ref("url", <<117, 114, 108, 40>> (* url( *), <<>>, src, <<41>> (* ) *)), Text(<<34, 62>> (* "> *))>>
    [] t = "gt" ->
         <<Text(<<60, 112, 62, 60, 105, 109, 103, 32, 97, 108, 116, 61, 34>> (* <p><img alt=" *)), Ref("url", <<117, 114, 108, 40>> (* url( *), <<>>, <<62, 47, 46, 46, 47>> (* >/../ *) \o src, <<41>> (* ) *)),
           Text(<<34, 32, 115, 114, 99, 61, 34>> (* " src=" *) \o src \o <<34, 62, 60, 47, 112, 62>> (* "></p> *))>>
    [] t = "near" ->
         <<Text(<<60, 105, 109, 103, 115, 114, 99, 61, 34>> (* <imgsrc=" *) \o src \o <<34, 62, 32, 115, 114, 99, 61, 39>> (* "> src=' *) \o src \o <<39, 32, 60, 105, 109, 103, 32, 97, 108, 116, 61, 39, 62, 39, 32, 115, 114, 99, 61, 34>> (* ' <img alt='>' src=" *)
                  \o src \o <<34, 62, 32, 104, 114, 101, 102, 61, 34>> (* "> href=" *) \o src \o <<34, 32, 117, 114, 108, 40>> (* " url( *) \o src)>>

\* The text of a part as it stands in the markup.
Original(p) == p.pre \o p.quote \o p.src \o p.post

\* The markup made of the parts.
Render(parts) == Concat([i \in DOMAIN parts |-> Original(parts[i])])

\* The archive and the markup a reference is tried with, as <<mask, n, bad,
\* t>>: every archive under an <img> tag, and every template with all of the
\* candidates stored and with none.
Uses ==
  {<<v[1], v[2], v[3], "img">> : v \in Stores}
  \cup {<<mask, MaxData, FALSE, t>> : mask \in {{1, 2, 3}, {}}, t \in Templates}

\* resolveAndEmbed is called on a reference in a piece of markup.
InitEmbed ==
  /\ pc = "idle"
  /\ epub = [openOK |-> FALSE, files |-> <<>>]
  /\ files = <<>>
  /\ opfPath = <<>>
  /\ pkg = NoXml
  /\ book = NilBook
  /\ err = "nil"
  /\ idx = 0
  /\ call = "init"
  /\ \E src \in Refs, basePath \in Bases, u \in Uses :
       arg = [src |-> src, basePath |-> basePath,
              files |-> EmbedFiles(Candidates(src, basePath), u[1], u[2], u[3]),
              parts |-> Template(u[4], src),
              content |-> Render(Template(u[4], src))]
  /\ ret = NoRet
  /\ sb = <<>>
  /\ cli = NoCli
  /\ disk = NoDisk

\* resolveAndEmbed(src, basePath, files) runs.
CallResolveAndEmbed ==
  /\ call = "init"
  /\ ret' = With(resolveAndEmbedRun(arg.src, arg.basePath, arg.files), LAMBDA r :
              [dataURI |-> r.dataURI, cleanSrc |-> r.cleanSrc,
               imagePath |-> r.imagePath, lookups |-> r.lookups, content |-> <<>>,
               again |-> <<>>])
  /\ call' = "resolved"
  /\ UNCHANGED <<pc, epub, files, opfPath, pkg, book, err, idx, arg, sb, cli, disk>>

\* embedImages(content, basePath, files) runs on the markup.
CallEmbedImages ==
  /\ call = "resolved"
  /\ ret' = [ret EXCEPT !.content = embedImages(arg.content, arg.basePath, arg.files)]
  /\ call' = "embedded"
  /\ UNCHANGED <<pc, epub, files, opfPath, pkg, book, err, idx, arg, sb, cli, disk>>

\* embedImages(content, basePath, files) runs once more, on its own result.
CallEmbedImagesAgain ==
  /\ call = "embedded"
  /\ ret' = [ret EXCEPT !.again = embedImages(ret.content, arg.basePath, arg.files)]
  /\ call' = "again"
  /\ UNCHANGED <<pc, epub, files, opfPath, pkg, book, err, idx, arg, sb, cli, disk>>

NextEmbed ==
  \/ CallResolveAndEmbed
  \/ CallEmbedImages
  \/ CallEmbedImagesAgain

SpecEmbed == InitEmbed /\ [][NextEmbed]_vars


(***************************************************************************)
(* ToHTML on its own: the Books it is given                                *)
(***************************************************************************)

\* The most chapters of a Book given to ToHTML.
MaxChapters == 2

\* Chapter contents: without a body, with one, in upper case, with two
\* closing tags, without a closing tag, without the end of the opening tag,
\* with the closing tag first, with an empty body, with an element whose
\* name starts with "body", with a closing tag inside the opening tag.
Contents ==
  {<<60, 112, 62, 120, 32, 38, 32, 121, 60, 47, 112, 62>> (* <p>x & y</p> *),
   <<60, 104, 116, 109, 108, 62, 60, 98, 111, 100, 121, 32, 99, 108, 97, 115, 115, 61, 34, 97, 34, 62, 60, 112, 62, 72, 105, 60, 47, 112, 62, 60, 47, 98, 111, 100, 121, 62, 60, 47, 104, 116, 109, 108, 62>> (* <html><body class="a"><p>Hi</p></body></html> *),
   <<60, 72, 84, 77, 76, 62, 60, 66, 79, 68, 89, 62, 72, 105, 60, 47, 66, 79, 68, 89, 62, 60, 47, 72, 84, 77, 76, 62>> (* <HTML><BODY>Hi</BODY></HTML> *),
   <<60, 98, 111, 100, 121, 62, 97, 60, 47, 98, 111, 100, 121, 62, 98, 60, 47, 98, 111, 100, 121, 62, 99>> (* <body>a</body>b</body>c *),
   <<60, 98, 111, 100, 121, 62, 110, 111, 32, 101, 110, 100>> (* <body>no end *),
   <<60, 112, 62, 120, 60, 47, 112, 62, 60, 98, 111, 100, 121, 32, 108, 97, 110, 103, 61, 34, 101, 110, 34>> (* <p>x</p><body lang="en" *),
   <<60, 47, 98, 111, 100, 121, 62, 60, 98, 111, 100, 121, 62>> (* </body><body> *),
   <<60, 33, 45, 45, 32, 60, 47, 98, 111, 100, 121, 62, 32, 45, 45, 62, 60, 98, 111, 100, 121, 62, 120>> (* <!-- </body> --><body>x *),
   <<60, 98, 111, 100, 121, 62, 60, 47, 98, 111, 100, 121, 62>> (* <body></body> *),
   <<60, 98, 111, 100, 121, 103, 117, 97, 114, 100, 62, 122, 60, 47, 98, 111, 100, 121, 62>> (* <bodyguard>z</body> *),
   <<60, 98, 111, 100, 121, 60, 47, 98, 111, 100, 121, 62>> (* <body</body> *),
   <<120, 60, 47, 98, 111, 100, 121, 62>> (* x</body> *),
   <<>>}

\* Titles and authors: with each of the four characters, with text that is
\* already an entity, plain, and empty.
Titles == {<<84, 38, 60>> (* T&< *), <<97, 60, 98, 62, 32, 34, 99, 34, 32, 38, 32, 100>> (* a<b> "c" & d *), <<38, 97, 109, 112, 59, 32, 38, 108, 116, 59>> (* &amp; &lt; *), <<80, 108, 97, 105, 110>> (* Plain *)}

Authors == {<<>>, <<65>> (* A *), <<82, 38, 68, 32, 34, 60, 120, 62, 34>> (* R&D "<x>" *)}

\* The collected style sheets.
Sheets == {<<>>, <<<<112, 123, 109, 97, 114, 103, 105, 110, 58, 48, 125>> (* p{margin:0} *)>>, <<<<97, 62, 98, 123, 125>> (* a>b{} *), <<105, 123, 125>> (* i{} *)>>}

Chapter(n, content) == [Title |-> <<n>>, Content |-> content, Order |-> n]

\* The chapter lists of at most MaxChapters chapters.
ChapterLists ==
  {[i \in DOMAIN q |-> Chapter(i - 1, q[i])] : q \in SeqsUpTo(Contents, MaxChapters)}

\* The Books: every chapter list under one title, and every title, author
\* and style-sheet list with one chapter.
Books ==
  {[isNil |-> FALSE, Title |-> <<80, 108, 97, 105, 110>> (* Plain *), Author |-> a, Chapters |-> chs,
    CSS |-> <<>>, BasePath |-> <<>>] : a \in {<<>>, <<65>> (* A *)}, chs \in ChapterLists}
  \cup
  {[isNil |-> FALSE, Title |-> t, Author |-> a,
    Chapters |-> <<Chapter(0, <<60, 98, 111, 100, 121, 62, 49, 60, 47, 98, 111, 100, 121, 62>> (* <body>1</body> *))>>,
    CSS |-> css, BasePath |-> <<>>] : t \in Titles, a \in Authors, css \in Sheets}

\* ToHTML is called on a Book.
InitHTML ==
  /\ pc = "tohtml"
  /\ epub = [openOK |-> FALSE, files |-> <<>>]
  /\ files = <<>>
  /\ opfPath = <<>>
  /\ pkg = NoXml
  /\ book \in Books
  /\ err = "nil"
  /\ idx = 0
  /\ call = "none"
  /\ arg = NoArg
  /\ ret = NoRet
  /\ sb = <<>>
  /\ cli = NoCli
  /\ disk = NoDisk

NextHTML ==
  \/ WriteHead
  \/ WriteChapter
  \/ WriteTail

SpecHTML == InitHTML /\ [][NextHTML]_vars

(***************************************************************************)
(* The command: runConvert, Parse, Convert                                 *)
(***************************************************************************)

\* A command line: the positional arguments, -o, and whether the input file
\* exists; the other flags at their defaults.
Line(args, outputPath, exists) ==
  [args |-> args, outputPath |-> outputPath, scale |-> 100, pageSize |-> <<65, 52>> (* A4 *),
   landscape |-> FALSE, exists |-> exists, output |-> <<>>]

\* The command lines: without and with a second positional argument and -o,
\* an input path with several dots, inputs that are rejected, and flags that
\* are rejected or change the page.
Lines ==
  {Line(args, o, TRUE) :
     args \in {<<<<98, 111, 111, 107, 46, 101, 112, 117, 98>> (* book.epub *)>>, <<<<98, 111, 111, 107, 46, 101, 112, 117, 98>> (* book.epub *), <<111, 117, 116, 46, 112, 100, 102>> (* out.pdf *)>>,
               <<<<118, 49, 46, 50, 47, 109, 121, 46, 98, 111, 111, 107, 46, 69, 80, 85, 66>> (* v1.2/my.book.EPUB *)>>, <<<<110, 111, 116, 101, 115, 46, 116, 120, 116>> (* notes.txt *)>>, <<>>},
     o \in {<<>>, <<111, 46, 112, 100, 102>> (* o.pdf *)}}
  \cup {Line(<<<<103, 111, 110, 101, 46, 101, 112, 117, 98>> (* gone.epub *), <<111, 117, 116, 46, 112, 100, 102>> (* out.pdf *)>>, <<>>, FALSE)}
  \cup {[Line(<<<<98, 111, 111, 107, 46, 101, 112, 117, 98>> (* book.epub *)>>, <<>>, TRUE) EXCEPT !.scale = s, !.pageSize = p,
                                                    !.landscape = l] :
          s \in {5, 10, 200, 250}, p \in {<<76, 101, 116, 116, 101, 114>> (* Letter *), <<66, 53>> (* B5 *)}, l \in BOOLEAN}

\* An archive with one chapter.
BookArchive(content) ==
  [openOK |-> TRUE,
   files |-> (containerPath :> XmlEntry(ContainerDoc(<<opfInDir>>)))
             @@ (opfInDir :> XmlEntry(Package(<<ItemC1(<<>>)>>, <<<<99, 49>> (* c1 *)>>)))
             @@ (<<79, 69, 66, 80, 83, 47, 99, 104, 49, 46, 120, 104, 116, 109, 108>> (* OEBPS/ch1.xhtml *) :> Entry(content))]

\* The files at the input path: a book, a book whose chapter has its closing
\* body tag first, a file that is no archive, and an archive without a
\* container.
InputFiles ==
  {BookArchive(<<60, 104, 116, 109, 108, 62, 60, 98, 111, 100, 121, 62, 60, 112, 62, 72, 105, 60, 47, 112, 62, 60, 47, 98, 111, 100, 121, 62, 60, 47, 104, 116, 109, 108, 62>> (* <html><body><p>Hi</p></body></html> *)),
   BookArchive(<<60, 47, 98, 111, 100, 121, 62, 60, 98, 111, 100, 121, 62>> (* </body><body> *)),
   [openOK |-> FALSE, files |-> <<>>],
   [openOK |-> TRUE, files |-> (<<109, 105, 109, 101, 116, 121, 112, 101>> (* mimetype *) :> Entry(<<97, 112, 112, 108, 105, 99, 97, 116, 105, 111, 110, 47, 101, 112, 117, 98, 43, 122, 105, 112>> (* application/epub+zip *)))]}

\* The command is started.
InitConvert ==
  /\ pc = "cmd"
  /\ epub \in InputFiles
  /\ files = <<>>
  /\ opfPath = <<>>
  /\ pkg = NoXml
  /\ book = NilBook
  /\ err = "nil"
  /\ idx = 0
  /\ call = "none"
  /\ arg = NoArg
  /\ ret = NoRet
  /\ sb = <<>>
  /\ cli \in Lines
  /\ disk = NoDisk

NextConvert ==
  \/ RunConvert
  \/ OpenReader
  \/ ReadContainer
  \/ ReadPackage
  \/ ExtractCSS
  \/ ExtractChapter
  \/ SortChapters
  \/ ParseReturned
  \/ WriteHead
  \/ WriteChapter
  \/ WriteTail
  \/ CreateTemp
  \/ WriteTemp
  \/ RunChrome
  \/ WritePDF

SpecConvert == InitConvert /\ [][NextConvert]_vars
(***************************************************************************)
(* Properties of Parse                                                     *)
(***************************************************************************)

\* C1: when Parse succeeds, the Book has at most as many chapters as the
\* spine has itemrefs, the Orders of adjacent chapters increase strictly, and
\* each chapter is the one of the itemref at the spine position its Order
\* gives, whatever the order of the manifest.
C1_ChaptersInSpineOrder ==
  (pc = "done" /\ err = "nil") =>
    /\ Len(book.Chapters) <= Len(pkg.Spine)
    /\ \A i \in 1..(Len(book.Chapters) - 1) :
         book.Chapters[i].Order < book.Chapters[i + 1].Order
    /\ \A i \in DOMAIN book.Chapters :
         /\ book.Chapters[i].Order \in 0..(Len(pkg.Spine) - 1)
         /\ book.Chapters[i].Title = pkg.Spine[book.Chapters[i].Order + 1]

\* Parse has succeeded on a spine that names two chapters in the order
\* opposite to the manifest's.
C1_Witness ==
  /\ pc = "done"
  /\ err = "nil"
  /\ Len(book.Chapters) = 2
  /\ book.Chapters[1].Title = <<99, 50>> (* c2 *)
  /\ book.Chapters[2].Title = <<99, 49>> (* c1 *)
  /\ pkg.Manifest[1].ID = <<99, 49>> (* c1 *)
  /\ pkg.Manifest[2].ID = <<99, 50>> (* c2 *)

\* The manifest item an idref names: the last one declared with that id.
ItemOf(idref, items) ==
  items[Max({k \in DOMAIN items : items[k].ID = idref})]

\* The itemref cannot become a chapter: no manifest item has its id, or the
\* item's media type contains neither "html" nor "xml", or the item's stored
\* path is not in the archive, or its entry cannot be read.
Unresolvable(idref, items, basePath, fs) ==
  \/ \A k \in DOMAIN items : items[k].ID # idref
  \/ /\ ~Contains(ItemOf(idref, items).MediaType, <<104, 116, 109, 108>> (* html *))
     /\ ~Contains(ItemOf(idref, items).MediaType, <<120, 109, 108>> (* xml *))
  \/ ~Has(fs, resolvePath(basePath, ItemOf(idref, items).Href))
  \/ fs[resolvePath(basePath, ItemOf(idref, items).Href)].openErr

\* The sequence without its k-th element.
RemoveAt(s, k) == SubSeq(s, 1, k - 1) \o SubSeq(s, k + 1, Len(s))

\* The chapters Parse returns for the archive at hand with another spine.
ChaptersOf(spine) ==
  sortChapters(spineLoop(<<>>, 0, spine, pkg.Manifest, book.BasePath, files))

\* The chapters without their Orders.
Told(chapters) ==
  [i \in DOMAIN chapters |-> <<chapters[i].Title, chapters[i].Content>>]

\* C2: once the package document is decoded Parse returns no error, whatever
\* the spine holds; an itemref that cannot become a chapter is skipped: the
\* chapters are as many as the itemrefs that can, and they are the chapters,
\* title and content, of the same archive without that itemref.
C2_UnresolvableSkipped ==
  (pc = "done" /\ pkg # NoXml) =>
    /\ err = "nil"
    /\ Len(book.Chapters) =
         Cardinality({k \in DOMAIN pkg.Spine :
                        ~Unresolvable(pkg.Spine[k], pkg.Manifest, book.BasePath, files)})
    /\ \A k \in DOMAIN pkg.Spine :
         Unresolvable(pkg.Spine[k], pkg.Manifest, book.BasePath, files) =>
           Told(book.Chapters) = Told(ChaptersOf(RemoveAt(pkg.Spine, k)))

\* Parse has returned two chapters for a spine of three itemrefs, the middle
\* one naming an entry that cannot be read.
C2_Witness ==
  /\ pc = "done"
  /\ err = "nil"
  /\ Len(pkg.Spine) = 3
  /\ pkg.Spine[2] = <<98, 49>> (* b1 *)
  /\ Unresolvable(pkg.Spine[2], pkg.Manifest, book.BasePath, files)
  /\ Len(book.Chapters) = 2

\* The entry cannot be decoded as a document of the kind.
Undecodable(entry, kind) == entry.openErr \/ entry.xml.kind # kind

\* The archive has a structural defect: it cannot be opened, it has no
\* entry META-INF/container.xml, the container cannot be decoded or lists no
\* rootfile, the first rootfile is no entry, or the package document cannot
\* be decoded.
StructuralFailure(a) ==
  \/ ~a.openOK
  \/ containerPath \notin DOMAIN a.files
  \/ Undecodable(a.files[containerPath], "container")
  \/ a.files[containerPath].xml.RootFiles = <<>>
  \/ a.files[containerPath].xml.RootFiles[1].FullPath \notin DOMAIN a.files
  \/ Undecodable(a.files[a.files[containerPath].xml.RootFiles[1].FullPath], "package")

\* C3: on an archive with a structural defect Parse never creates a Book (so
\* no chapter and no style sheet is extracted) and returns an error; the
\* package document read is always the one the first rootfile names, and an
\* archive without a structural defect is parsed without error.
C3_StructuralFailureFatal ==
  /\ StructuralFailure(epub) => book = NilBook
  /\ (pc = "done" /\ StructuralFailure(epub)) => err # "nil"
  /\ (pc = "done" /\ ~StructuralFailure(epub)) => (err = "nil" /\ ~book.isNil)
  /\ opfPath # <<>> => opfPath = files[containerPath].xml.RootFiles[1].FullPath
  /\ pkg # NoXml => pkg = files[files[containerPath].xml.RootFiles[1].FullPath].xml

\* Parse has failed on a container whose first rootfile names no entry and
\* whose second rootfile names the package document.
C3_Witness ==
  /\ pc = "done"
  /\ err = "OPF file not found"
  /\ book = NilBook
  /\ Len(files[containerPath].xml.RootFiles) = 2
  /\ files[containerPath].xml.RootFiles[2].FullPath \in DOMAIN files

(***************************************************************************)
(* Properties of the inliner                                               *)
(***************************************************************************)

\* resolveAndEmbed has returned.
Resolved == call \in {"resolved", "embedded", "again"}

\* The reference starts with "data:", "http://" or "https://".
SchemePrefixed(src) ==
  \/ Len(src) >= 5 /\ SubSeq(src, 1, 5) = <<100, 97, 116, 97, 58>> (* data: *)
  \/ Len(src) >= 7 /\ SubSeq(src, 1, 7) = <<104, 116, 116, 112, 58, 47, 47>> (* http:// *)
  \/ Len(src) >= 8 /\ SubSeq(src, 1, 8) = <<104, 116, 116, 112, 115, 58, 47, 47>> (* https:// *)

\* The value of a base64 character, -1 for any other byte.
B64Value(c) ==
  IF c >= 65 (* 'A' *) /\ c <= 90 (* 'Z' *) THEN c - 65 (* 'A' *)
  ELSE IF c >= 97 (* 'a' *) /\ c <= 122 (* 'z' *) THEN c - 97 (* 'a' *) + 26
  ELSE IF c >= 48 (* '0' *) /\ c <= 57 (* '9' *) THEN c - 48 (* '0' *) + 52
  ELSE IF c = 43 (* '+' *) THEN 62
  ELSE IF c = 47 (* '/' *) THEN 63
  ELSE -1

NotBase64 == [ok |-> FALSE, data |-> <<>>]

RECURSIVE DecodeString(_)
\* base64.StdEncoding.DecodeString: [ok, data].  Four characters give three
\* bytes; the last four may end in "=" or "==" and give two bytes or one.
DecodeString(s) ==
  IF s = <<>> THEN [ok |-> TRUE, data |-> <<>>]
  ELSE IF Len(s) < 4 THEN NotBase64
  ELSE
    LET v == [i \in 1..4 |-> B64Value(s[i])]
        b1 == v[1] * 4 + (v[2] \div 16)
        b2 == (v[2] % 16) * 16 + (v[3] \div 4)
        b3 == (v[3] % 4) * 64 + v[4]
        rest == DecodeString(Drop(s, 4))
    IN  IF v[1] < 0 \/ v[2] < 0 THEN NotBase64
        ELSE IF s[3] = 61 (* '=' *)
          THEN IF s[4] = 61 (* '=' *) /\ Len(s) = 4 /\ v[2] % 16 = 0
                 THEN [ok |-> TRUE, data |-> <<b1>>]
               ELSE NotBase64
        ELSE IF v[3] < 0 THEN NotBase64
        ELSE IF s[4] = 61 (* '=' *)
          THEN IF Len(s) = 4 /\ v[3] % 4 = 0
                 THEN [ok |-> TRUE, data |-> <<b1, b2>>]
               ELSE NotBase64
        ELSE IF v[4] < 0 \/ ~rest.ok THEN NotBase64
        ELSE [ok |-> TRUE, data |-> <<b1, b2, b3>> \o rest.data]

\* The media types of the inliner.
ImageTypes ==
  {<<105, 109, 97, 103, 101, 47, 106, 112, 101, 103>> (* image/jpeg *), <<105, 109, 97, 103, 101, 47, 112, 110, 103>> (* image/png *), <<105, 109, 97, 103, 101, 47, 103, 105, 102>> (* image/gif *), <<105, 109, 97, 103, 101, 47, 115, 118, 103, 43, 120, 109, 108>> (* image/svg+xml *),
   <<105, 109, 97, 103, 101, 47, 119, 101, 98, 112>> (* image/webp *), <<105, 109, 97, 103, 101, 47, 98, 109, 112>> (* image/bmp *), <<105, 109, 97, 103, 101, 47, 120, 45, 105, 99, 111, 110>> (* image/x-icon *)}

\* The text is data:<mediaType>;base64,<encoded> for one of the media types.
IsDataURI(uri) ==
  \E mime \in ImageTypes : HasPrefix(uri, <<100, 97, 116, 97, 58>> (* data: *) \o mime \o <<59, 98, 97, 115, 101, 54, 52, 44>> (* ;base64, *))

\* The <encoded> of a data URI.
EncodedOf(uri) == Drop(uri, Index(uri, <<59, 98, 97, 115, 101, 54, 52, 44>> (* ;base64, *)) + 8)

\* The archive entry the lookups of the run ended on.
HitKey == ret.lookups[Len(ret.lookups)]

\* C4: a result of resolveAndEmbed that is not empty is
\* data:<mediaType>;base64,<encoded>, and <encoded> decodes (standard base64)
\* to the bytes of the archive entry the lookup hit, all of them.
C4_PayloadDecodesToEntry ==
  (Resolved /\ ret.dataURI # <<>>) =>
    /\ IsDataURI(ret.dataURI)
    /\ ret.lookups # <<>>
    /\ HitKey \in DOMAIN arg.files
    /\ DecodeString(EncodedOf(ret.dataURI)) =
         [ok |-> TRUE, data |-> arg.files[HitKey].data]

\* resolveAndEmbed has inlined an entry of two bytes, which base64 pads.
C4_Witness ==
  /\ call = "resolved"
  /\ ret.dataURI # <<>>
  /\ HitKey \in DOMAIN arg.files
  /\ Len(arg.files[HitKey].data) = 2
  /\ arg.files[HitKey].data[1] > 127
  /\ HasSuffix(ret.dataURI, <<61>> (* = *))

\* The stored paths resolveAndEmbed may look up for the reference of the
\* run: the reference resolved against the base directory, the cleaned
\* reference, and the normalized form of the first.
Keys ==
  <<resolveRelativePath(arg.basePath, cleanSrcOf(arg.src)),
    cleanSrcOf(arg.src),
    normalizePath(resolveRelativePath(arg.basePath, cleanSrcOf(arg.src)))>>

\* The candidates the archive holds.
Present == {i \in 1..3 : Keys[i] \in DOMAIN arg.files}

\* C5: for a reference that is not skipped, the lookups are the three
\* candidates in order, up to the first the archive holds; that entry gives
\* the bytes of the result, also when a later candidate is stored too, and
\* the result is not empty when the entry can be read and the reference has
\* an image extension.  When the archive holds none, the result is empty and
\* embedImages leaves the markup as it is.
C5_LookupOrder ==
  (Resolved /\ ~SchemePrefixed(arg.src)) =>
    /\ Present = {} =>
         /\ ret.lookups = Keys
         /\ ret.dataURI = <<>>
         /\ call = "embedded" => ret.content = arg.content
    /\ Present # {} =>
         /\ ret.lookups = SubSeq(Keys, 1, Min(Present))
         /\ ret.dataURI # <<>> =>
              DecodeString(EncodedOf(ret.dataURI)) =
                [ok |-> TRUE, data |-> arg.files[Keys[Min(Present)]].data]
         /\ ret.dataURI = <<>> =>
              \/ arg.files[Keys[Min(Present)]].openErr
              \/ ~isImageFile(cleanSrcOf(arg.src))

\* resolveAndEmbed has taken the bytes of the first candidate while the
\* second, with other bytes, was stored too.
C5_Witness ==
  /\ call = "resolved"
  /\ {1, 2} \subseteq Present
  /\ Keys[1] # Keys[2]
  /\ arg.files[Keys[1]].data # arg.files[Keys[2]].data
  /\ ret.lookups = <<Keys[1]>>
  /\ ret.dataURI # <<>>

RECURSIVE LeadingUps(_)
\* The number of "../" the reference starts with.
LeadingUps(href) ==
  IF Len(href) >= 3 /\ SubSeq(href, 1, 3) = <<46, 46, 47>> (* ../ *)
    THEN 1 + LeadingUps(Drop(href, 3))
  ELSE 0

\* The segments of a base directory ("." has none).
BaseSegments(base) ==
  SelectSeq(SplitSlash(base), LAMBDA seg : seg # <<>> /\ seg # <<46>> (* . *))

\* The directory made of the first n segments of the base directory.
BasePrefix(base, n) ==
  IF base[1] = 47 (* '/' *) THEN <<47>> (* / *) \o JoinSlash(Take(BaseSegments(base), n))
  ELSE IF n = 0 THEN <<46>> (* . *)
  ELSE JoinSlash(Take(BaseSegments(base), n))

\* The first max(d - k, 0) segments of the base directory joined with the
\* remainder of the reference after its k leading "../".
ClampedJoin(base, href) ==
  Join(BasePrefix(base, Max({Len(BaseSegments(base)) - LeadingUps(href), 0})),
       Drop(href, 3 * LeadingUps(href)))

\* The path starts with the segment "..".
StartsWithDotDot(p) == p = <<46, 46>> (* .. *) \/ HasPrefix(p, <<46, 46, 47>> (* ../ *))

\* C6: for a base directory of depth d and a reference of k leading "../"
\* and a remainder, resolveRelativePath returns the first max(d - k, 0)
\* segments of the base directory joined with the remainder, and never a
\* path that starts with "..".
C6_ClimbClampsAtRoot ==
  (Resolved /\ ~SchemePrefixed(arg.src)) =>
    /\ ret.imagePath = ClampedJoin(arg.basePath, ret.cleanSrc)
    /\ ~StartsWithDotDot(ret.imagePath)

\* Every reference of the markup starts with data:, http:// or https://.
AllSchemePrefixed ==
  \A i \in DOMAIN arg.parts :
    arg.parts[i].kind # "text" => SchemePrefixed(arg.parts[i].src)

\* C7: a reference that starts with data:, http:// or https:// is not
\* inlined: resolveAndEmbed returns "" without looking anything up, and
\* embedImages returns markup whose references all start so as it is,
\* whatever the archive holds.
C7_SchemesPassThrough ==
  (Resolved /\ SchemePrefixed(arg.src)) =>
    /\ ret.dataURI = <<>>
    /\ ret.lookups = <<>>
    /\ (call = "embedded" /\ AllSchemePrefixed) => ret.content = arg.content

\* embedImages has run on an <img> tag whose data: reference is also the
\* stored path of an archive entry.
C7_Witness ==
  /\ call = "embedded"
  /\ SchemePrefixed(arg.src)
  /\ arg.src \in DOMAIN arg.files
  /\ \E i \in DOMAIN arg.parts : arg.parts[i].kind = "img"
  /\ ret.content = arg.content

\* The extension of a file name, in lower case: the bytes after its last
\* '.' ("" when it has none).
ExtensionOf(name) ==
  IF \A i \in DOMAIN name : name[i] # 46 (* '.' *) THEN <<>>
  ELSE ToLower(Drop(name, Max({i \in DOMAIN name : name[i] = 46 (* '.' *)})))

\* The media type of each image extension, "" for any other.
TypeOfExtension(ext) ==
  CASE ext \in {<<106, 112, 103>> (* jpg *), <<106, 112, 101, 103>> (* jpeg *)} -> <<105, 109, 97, 103, 101, 47, 106, 112, 101, 103>> (* image/jpeg *)
    [] ext = <<112, 110, 103>> (* png *) -> <<105, 109, 97, 103, 101, 47, 112, 110, 103>> (* image/png *)
    [] ext = <<103, 105, 102>> (* gif *) -> <<105, 109, 97, 103, 101, 47, 103, 105, 102>> (* image/gif *)
    [] ext = <<115, 118, 103>> (* svg *) -> <<105, 109, 97, 103, 101, 47, 115, 118, 103, 43, 120, 109, 108>> (* image/svg+xml *)
    [] ext = <<119, 101, 98, 112>> (* webp *) -> <<105, 109, 97, 103, 101, 47, 119, 101, 98, 112>> (* image/webp *)
    [] ext = <<98, 109, 112>> (* bmp *) -> <<105, 109, 97, 103, 101, 47, 98, 109, 112>> (* image/bmp *)
    [] ext = <<105, 99, 111>> (* ico *) -> <<105, 109, 97, 103, 101, 47, 120, 45, 105, 99, 111, 110>> (* image/x-icon *)
    [] OTHER -> <<>>

\* The media type the extension of the referenced file name stands for.
TypeOfRef == TypeOfExtension(ExtensionOf(cleanSrcOf(arg.src)))

\* C8: the media type of a payload is the one the table gives for the
\* extension of the referenced file name, compared without regard to case; a
\* reference whose extension is not in the table is not inlined, even when
\* its entry is found, and embedImages leaves it as it is; a reference whose
\* extension is in the table and whose entry is found and read is inlined.
C8_TypeByExtension ==
  (Resolved /\ ~SchemePrefixed(arg.src)) =>
    /\ ret.dataURI # <<>> =>
         /\ TypeOfRef # <<>>
         /\ HasPrefix(ret.dataURI, <<100, 97, 116, 97, 58>> (* data: *) \o TypeOfRef \o <<59, 98, 97, 115, 101, 54, 52, 44>> (* ;base64, *))
    /\ TypeOfRef = <<>> =>
         /\ ret.dataURI = <<>>
         /\ call = "embedded" => ret.content = arg.content
    /\ (TypeOfRef # <<>> /\ Present # {} /\ ~arg.files[Keys[Min(Present)]].openErr) =>
         ret.dataURI # <<>>

\* embedImages has left alone an <img> tag whose reference names a stored
\* entry that can be read but has no image extension.
C8_Witness ==
  /\ call = "embedded"
  /\ ~SchemePrefixed(arg.src)
  /\ TypeOfRef = <<>>
  /\ HitKey \in DOMAIN arg.files
  /\ ~arg.files[HitKey].openErr
  /\ \E i \in DOMAIN arg.parts : arg.parts[i].kind = "img"
  /\ ret.content = arg.content

\* What resolveAndEmbed returns for the reference of a part.
Payload(p) == resolveAndEmbed(p.src, arg.basePath, arg.files)

\* The text of a part with the payload in the place of the reference.
Inlined(p) == p.pre \o p.quote \o Payload(p) \o p.post

\* The parts that are references whose inlining succeeds.
MayInline ==
  {i \in DOMAIN arg.parts : arg.parts[i].kind # "text" /\ Payload(arg.parts[i]) # <<>>}

\* The ones of them that embedImages hands to the inliner: in an <img> tag,
\* or with an image extension.
MustInline ==
  {i \in MayInline :
     \/ arg.parts[i].kind = "img"
     \/ TypeOfExtension(ExtensionOf(arg.parts[i].src)) # <<>>}

\* The markup with the references in S inlined.
Rewritten(S) ==
  Concat([i \in DOMAIN arg.parts |->
            IF i \in S THEN Inlined(arg.parts[i]) ELSE Original(arg.parts[i])])

\* C9: the result of embedImages is its input with some references replaced
\* by their payloads, each between the prefix, the opening quote and the
\* closing text it had; only references whose inlining succeeds are
\* replaced, among them all that are handed to the inliner; every other
\* byte stays, so markup without a reference comes back as it is.
C9_OnlyReferencesRewritten ==
  call = "embedded" =>
    /\ \E S \in SUBSET MayInline : MustInline \subseteq S /\ ret.content = Rewritten(S)
    /\ MayInline = {} => ret.content = arg.content

\* embedImages has replaced a reference in single quotes and a second one in
\* url().
C9_Witness ==
  /\ call = "embedded"
  /\ Len(arg.parts) = 4
  /\ MayInline = {1, 3}
  /\ arg.parts[1].quote = <<39>> (* ' *)
  /\ ret.content = Rewritten({1, 3})
  /\ ret.content # arg.content

\* C10: isImageFile on a reference agrees with getMimeType on the reference
\* after fragment stripping and decoding, so a reference that <img src> would
\* inline is inlined under xlink:href and in url() too.
C10_GateAgreesWithInliner ==
  call = "embedded" =>
    /\ isImageFile(arg.src) <=> getMimeType(cleanSrcOf(arg.src)) # <<>>
    /\ MayInline # {} => ret.content = Rewritten(MayInline)


\* Some '%' of s is not followed by two hexadecimal digits.
Malformed(s) ==
  \E i \in DOMAIN s :
    s[i] = 37 (* '%' *) /\ (i + 2 > Len(s) \/ ~ishex(s[i + 1]) \/ ~ishex(s[i + 2]))

\* The value of a hexadecimal digit.
HexValue(c) ==
  CHOOSE v \in 0..15 : <<48, 49, 50, 51, 52, 53, 54, 55, 56, 57, 97, 98, 99, 100, 101, 102>> (* 0123456789abcdef *)[v + 1] = LowerByte(c)

RECURSIVE PercentDecoded(_)
\* s with each %XX replaced by the byte XX and every other byte kept.
PercentDecoded(s) ==
  IF s = <<>> THEN <<>>
  ELSE IF s[1] = 37 (* '%' *)
    THEN <<16 * HexValue(s[2]) + HexValue(s[3])>> \o PercentDecoded(SubSeq(s, 4, Len(s)))
  ELSE <<s[1]>> \o PercentDecoded(Tail(s))

\* The reference up to its first '#'.
BeforeFragment(s) ==
  IF \E i \in DOMAIN s : s[i] = 35 (* '#' *)
    THEN SubSeq(s, 1, Min({i \in DOMAIN s : s[i] = 35 (* '#' *)}) - 1)
  ELSE s

\* The reference as step 3 is said to leave it.
Step3(src) ==
  IF Malformed(BeforeFragment(src)) THEN BeforeFragment(src)
  ELSE PercentDecoded(BeforeFragment(src))

\* C11: the reference that resolveAndEmbed looks up is the fragment-stripped
\* reference with each well-formed %XX escape replaced by its byte and every
\* other character, '+' included, kept as it is; with a malformed escape it
\* is the fragment-stripped reference itself, and the lookups go on: the
\* first key looked up is that reference resolved against the base directory.
C11_PercentDecodingOnly ==
  (call # "init" /\ ~SchemePrefixed(arg.src)) =>
    /\ ret.cleanSrc = Step3(arg.src)
    /\ ret.lookups # <<>>
    /\ ret.lookups[1] = resolveRelativePath(arg.basePath, Step3(arg.src))

\* C12: when Parse succeeds, the chapter at position i of Book.Chapters
\* (counted from 0) has Order = i, also when itemrefs of the spine were
\* skipped.
C12_OrdersSequential ==
  (pc = "done" /\ err = "nil") =>
    \A i \in DOMAIN book.Chapters : book.Chapters[i].Order = i - 1

\* The stored path of a manifest item: the package directory joined with
\* the item's href.
StoredPath(item) ==
  IF book.BasePath = <<>> THEN item.Href ELSE book.BasePath \o <<47>> (* / *) \o item.Href

\* The positions in the manifest of the items of media type "text/css" whose
\* stored path is an entry of the archive.
StyleItems ==
  {k \in DOMAIN pkg.Manifest :
     /\ pkg.Manifest[k].MediaType = <<116, 101, 120, 116, 47, 99, 115, 115>> (* text/css *)
     /\ StoredPath(pkg.Manifest[k]) \in DOMAIN files}

\* Those of them whose entry can be read.
ReadableStyleItems == {k \in StyleItems : ~files[StoredPath(pkg.Manifest[k])].openErr}

\* The j-th smallest element of a set of numbers.
Nth(S, j) == CHOOSE k \in S : Cardinality({m \in S : m < k}) = j - 1

\* The style sheets of the archives with the image OEBPS/images/a.png (bytes
\* 89 50 4E, base64 iVBO) inlined relative to the style sheet's directory.
InlinedSheet(p) ==
  CASE p = <<79, 69, 66, 80, 83, 47, 115, 116, 121, 108, 101, 46, 99, 115, 115>> (* OEBPS/style.css *) -> <<112, 123, 98, 97, 99, 107, 103, 114, 111, 117, 110, 100, 58, 117, 114, 108, 40, 100, 97, 116, 97, 58, 105, 109, 97, 103, 101, 47, 112, 110, 103, 59, 98, 97, 115, 101, 54, 52, 44, 105, 86, 66, 79, 41, 125>> (* p{background:url(data:image/png;base64,iVBO)} *)
    [] p = <<79, 69, 66, 80, 83, 47, 116, 101, 120, 116, 47, 101, 120, 116, 114, 97, 46, 99, 115, 115>> (* OEBPS/text/extra.css *) -> <<105, 123, 98, 97, 99, 107, 103, 114, 111, 117, 110, 100, 58, 117, 114, 108, 40, 39, 100, 97, 116, 97, 58, 105, 109, 97, 103, 101, 47, 112, 110, 103, 59, 98, 97, 115, 101, 54, 52, 44, 105, 86, 66, 79, 39, 41, 125>> (* i{background:url('data:image/png;base64,iVBO')} *)
    [] OTHER -> files[p].data

\* C13 as stated: when Parse succeeds, Book.CSS has one entry for every
\* manifest item of media type exactly "text/css" whose stored path exists in
\* the archive, in manifest order, each with its url() references inlined
\* relative to its own directory.
C13_StyleSheetPerStoredItem ==
  (pc = "done" /\ err = "nil") =>
    /\ Len(book.CSS) = Cardinality(StyleItems)
    /\ \A j \in DOMAIN book.CSS :
         book.CSS[j] = InlinedSheet(StoredPath(pkg.Manifest[Nth(StyleItems, j)]))

\* C13 as amended: when Parse succeeds, Book.CSS has one entry for every
\* manifest item of media type exactly "text/css" whose stored path exists in
\* the archive and whose entry can be read, in manifest order and whether or
\* not the spine names the item; each entry is the style sheet with its url()
\* references inlined relative to its own directory.
C13_StyleSheetPerReadableItem ==
  (pc = "done" /\ err = "nil") =>
    /\ Len(book.CSS) = Cardinality(ReadableStyleItems)
    /\ \A j \in DOMAIN book.CSS :
         book.CSS[j] = InlinedSheet(StoredPath(pkg.Manifest[Nth(ReadableStyleItems, j)]))

\* Parse has collected two style sheets in manifest order, the first from a
\* subdirectory, from a manifest that also declares an item of media type
\* "text/CSS", with a spine that names no style sheet, the package document
\* being at the top level.
C13_Witness ==
  /\ pc = "done"
  /\ err = "nil"
  /\ book.BasePath = <<>>
  /\ Len(book.CSS) = 2
  /\ book.CSS[1] = <<105, 123, 98, 97, 99, 107, 103, 114, 111, 117, 110, 100, 58, 117, 114, 108, 40, 39, 100, 97, 116, 97, 58, 105, 109, 97, 103, 101, 47, 112, 110, 103, 59, 98, 97, 115, 101, 54, 52, 44, 105, 86, 66, 79, 39, 41, 125>> (* i{background:url('data:image/png;base64,iVBO')} *)
  /\ book.CSS[2] = <<112, 123, 98, 97, 99, 107, 103, 114, 111, 117, 110, 100, 58, 117, 114, 108, 40, 100, 97, 116, 97, 58, 105, 109, 97, 103, 101, 47, 112, 110, 103, 59, 98, 97, 115, 101, 54, 52, 44, 105, 86, 66, 79, 41, 125>> (* p{background:url(data:image/png;base64,iVBO)} *)
  /\ \E k \in DOMAIN pkg.Manifest : pkg.Manifest[k].MediaType = <<116, 101, 120, 116, 47, 67, 83, 83>> (* text/CSS *)
  /\ Len(pkg.Spine) = 2

(***************************************************************************)
(* Properties of ToHTML                                                    *)
(***************************************************************************)

\* ToHTML has ended: it has returned the document or it has panicked.
Ended == pc \in {"returned", "panicked"}

\* The positions (1-based) at which the marker stands in c, letters of c
\* taken in lower case.
MarkerAt(c, marker) ==
  {i \in 1..(Len(c) - Len(marker) + 1) :
     \A k \in DOMAIN marker : LowerByte(c[i + k - 1]) = marker[k]}

\* The position of the '>' that ends the first opening body tag, 0 if there
\* is none.
OpenTagEnd(c) ==
  LET from == Min(MarkerAt(c, <<60, 98, 111, 100, 121>> (* <body *)))
      ends == {j \in from..Len(c) : c[j] = 62 (* '>' *)}
  IN  IF ends = {} THEN 0 ELSE Min(ends)

\* The position of the last closing body marker, 0 if there is none.
LastClose(c) ==
  IF MarkerAt(c, <<60, 47, 98, 111, 100, 121, 62>> (* </body> *)) = {} THEN 0 ELSE Max(MarkerAt(c, <<60, 47, 98, 111, 100, 121, 62>> (* </body> *)))

\* The content has no opening body marker, or it has a complete opening tag
\* and a closing marker.
Delimited(c) ==
  \/ MarkerAt(c, <<60, 98, 111, 100, 121>> (* <body *)) = {}
  \/ OpenTagEnd(c) # 0 /\ LastClose(c) # 0

\* The content verbatim, or the text between the end of the opening tag and
\* the last closing marker (none when the marker does not come after it).
BodyText(c) ==
  IF MarkerAt(c, <<60, 98, 111, 100, 121>> (* <body *)) = {} THEN c
  ELSE SubSeq(c, OpenTagEnd(c) + 1, LastClose(c) - 1)

\* The chapters in their wrappers, in order, and the end of the document.
ChapterPart(chapters) ==
  Concat([i \in DOMAIN chapters |->
            <<60, 100, 105, 118, 32, 99, 108, 97, 115, 115, 61, 34, 99, 104, 97, 112, 116, 101, 114, 34, 62>> (* <div class="chapter"> *) \o <<10>> \o BodyText(chapters[i].Content)
              \o <<10>> \o <<60, 47, 100, 105, 118, 62>> (* </div> *) \o <<10>>])
  \o <<60, 47, 98, 111, 100, 121, 62>> (* </body> *) \o <<10>> \o <<60, 47, 104, 116, 109, 108, 62>> (* </html> *)

\* C14: for a Book whose chapters have no opening body marker or have a
\* complete opening body tag and a closing body marker, ToHTML returns a
\* document that ends with the chapters in order, each in one chapter
\* wrapper: the content verbatim without an opening marker, else the text
\* between the end of the opening tag and the last closing marker.
C14_BodyBetweenMarkers ==
  (Ended /\ \A i \in DOMAIN book.Chapters : Delimited(book.Chapters[i].Content)) =>
    /\ pc = "returned"
    /\ HasSuffix(sb, ChapterPart(book.Chapters))

\* The text of the document between the first open and the next close, or
\* the marker NotThere.
NotThere == <<0>>

Emitted(open, close) ==
  IF ~Contains(sb, open) THEN NotThere
  ELSE LET rest == Drop(sb, Index(sb, open) + Len(open))
       IN  Take(rest, Index(rest, close))

Entities ==
  {<<<<38, 97, 109, 112, 59>> (* &amp; *), <<38>> (* & *)>>, <<<<38, 108, 116, 59>> (* &lt; *), <<60>> (* < *)>>, <<<<38, 103, 116, 59>> (* &gt; *), <<62>> (* > *)>>, <<<<38, 113, 117, 111, 116, 59>> (* &quot; *), <<34>> (* " *)>>}

\* An entity starts at position i of s.
EntityAt(s, i) ==
  \E e \in Entities : Len(s) >= i + Len(e[1]) - 1 /\ SubSeq(s, i, i + Len(e[1]) - 1) = e[1]

RECURSIVE Unescaped(_)
\* s with each of the four entities replaced by its character, left to right.
Unescaped(s) ==
  IF s = <<>> THEN <<>>
  ELSE IF EntityAt(s, 1)
    THEN LET e == CHOOSE x \in Entities : HasPrefix(s, x[1])
         IN  e[2] \o Unescaped(Drop(s, Len(e[1])))
  ELSE <<s[1]>> \o Unescaped(Tail(s))

\* out is text escaped once: no raw <, > or ", every & starts an entity, and
\* un-escaping gives text back.
EscapedOnce(out, text) ==
  /\ \A i \in DOMAIN out : out[i] \notin {60 (* '<' *), 62 (* '>' *), 34 (* '"' *)}
  /\ \A i \in DOMAIN out : out[i] = 38 (* '&' *) => EntityAt(out, i)
  /\ Unescaped(out) = text

\* C15: in the document ToHTML builds, the text of <title> and the text of
\* the <h1> of the title block are the title escaped once (no raw <, > or ",
\* every & starting one of the four entities, un-escaping giving the title
\* back), the title block holds the author escaped once right after the
\* <h1>, and it holds no author block exactly when the author is empty.
C15_EscapedOnce ==
  (pc \in {"chapters", "returned", "panicked"}) =>
    /\ EscapedOnce(Emitted(<<60, 116, 105, 116, 108, 101, 62>> (* <title> *), <<60, 47, 116, 105, 116, 108, 101, 62>> (* </title> *)), book.Title)
    /\ EscapedOnce(Emitted(<<60, 100, 105, 118, 32, 99, 108, 97, 115, 115, 61, 34, 116, 105, 116, 108, 101, 45, 112, 97, 103, 101, 34, 62>> (* <div class="title-page"> *) \o <<10>> \o <<60, 104, 49, 62>> (* <h1> *),
                           <<60, 47, 104, 49, 62>> (* </h1> *) \o <<10>>), book.Title)
    /\ book.Author = <<>> =>
         /\ ~Contains(sb, <<99, 108, 97, 115, 115, 61, 34, 97, 117, 116, 104, 111, 114, 34>> (* class="author" *))
         /\ Contains(sb, <<60, 47, 104, 49, 62>> (* </h1> *) \o <<10>> \o <<60, 47, 100, 105, 118, 62>> (* </div> *) \o <<10>>)
    /\ book.Author # <<>> =>
         EscapedOnce(Emitted(<<60, 47, 104, 49, 62>> (* </h1> *) \o <<10>> \o <<60, 112, 32, 99, 108, 97, 115, 115, 61, 34, 97, 117, 116, 104, 111, 114, 34, 62>> (* <p class="author"> *),
                             <<60, 47, 112, 62>> (* </p> *) \o <<10>> \o <<60, 47, 100, 105, 118, 62>> (* </div> *) \o <<10>>), book.Author)

\* ToHTML has returned the document of a Book whose title and author hold
\* all four characters.
C15_Witness ==
  /\ pc = "returned"
  /\ book.Title = <<97, 60, 98, 62, 32, 34, 99, 34, 32, 38, 32, 100>> (* a<b> "c" & d *)
  /\ book.Author = <<82, 38, 68, 32, 34, 60, 120, 62, 34>> (* R&D "<x>" *)
  /\ Emitted(<<60, 116, 105, 116, 108, 101, 62>> (* <title> *), <<60, 47, 116, 105, 116, 108, 101, 62>> (* </title> *)) = <<97, 38, 108, 116, 59, 98, 38, 103, 116, 59, 32, 38, 113, 117, 111, 116, 59, 99, 38, 113, 117, 111, 116, 59, 32, 38, 97, 109, 112, 59, 32, 100>> (* a&lt;b&gt; &quot;c&quot; &amp; d *)
  /\ Contains(sb, <<60, 112, 32, 99, 108, 97, 115, 115, 61, 34, 97, 117, 116, 104, 111, 114, 34, 62, 82, 38, 97, 109, 112, 59, 68, 32, 38, 113, 117, 111, 116, 59, 38, 108, 116, 59, 120, 38, 103, 116, 59, 38, 113, 117, 111, 116, 59, 60, 47, 112, 62>> (* <p class="author">R&amp;D &quot;&lt;x&gt;&quot;</p> *))

\* C17: ToHTML returns a document for every Book: it never ends in a panic,
\* and for every chapter with a complete opening body tag the end of the
\* body (the last closing marker, or the end of the content) is not before
\* its start (the end of the opening tag).
C17_ToHTMLCompletes ==
  Ended =>
    /\ pc = "returned"
    /\ err = "nil"
    /\ \A i \in DOMAIN book.Chapters :
         LET c == book.Chapters[i].Content
         IN  (MarkerAt(c, <<60, 98, 111, 100, 121>> (* <body *)) # {} /\ OpenTagEnd(c) # 0) =>
               (IF LastClose(c) = 0 THEN Len(c) ELSE LastClose(c) - 1) >= OpenTagEnd(c)

\* C18: embedImages applied to its own result, with the same base directory
\* and archive, changes nothing: embedImages(embedImages(c)) =
\* embedImages(c).
C18_EmbedImagesIdempotent ==
  call = "again" => ret.again = ret.content

(***************************************************************************)
(* Properties of the command and of Convert                                *)
(***************************************************************************)

\* The path with the extension of its last element replaced by ".pdf".
WithPdfExtension(p) ==
  LET lastSlash == Max({0} \cup {i \in DOMAIN p : p[i] = 47 (* '/' *)})
      dots == {i \in (lastSlash + 1)..Len(p) : p[i] = 46 (* '.' *)}
  IN  (IF dots = {} THEN p ELSE SubSeq(p, 1, Max(dots) - 1)) \o <<46, 112, 100, 102>> (* .pdf *)

\* The output path the usage line "epub2pdf <input.epub> [output.pdf]"
\* promises.
PromisedOutput ==
  IF cli.outputPath # <<>> THEN cli.outputPath
  ELSE IF Len(cli.args) >= 2 THEN cli.args[2]
  ELSE WithPdfExtension(cli.args[1])

\* C16: the output path the command chooses is the path given with -o, else
\* the second positional argument when there is one, else the input path
\* with its extension replaced by .pdf; the PDF is written to that path.
C16_SecondArgumentIsOutput ==
  /\ cli.output # <<>> => cli.output = PromisedOutput
  /\ disk.out # "none" => disk.outPath = PromisedOutput

\* C19: the output file is written only after the rendering engine has
\* succeeded; when creating or writing the temporary file fails, or the
\* rendering fails or runs out of time, Convert returns an error and the
\* output path is not written; and when Convert has returned after the
\* temporary file was created, the temporary file is removed.
C19_OutputOnlyAfterRendering ==
  /\ disk.out # "none" => disk.render = "ok"
  /\ (disk.tmpErr # "none" \/ disk.render \in {"error", "timeout"}) =>
       (pc = "exit" /\ err # "nil" /\ disk.out = "none")
  /\ (pc = "exit" /\ disk.tmp # "none") => disk.tmp = "removed"
  /\ disk.tmp \in {"empty", "written"} => pc \in {"tmp", "render", "write"}

\* Convert has returned an error after the rendering ran out of time: the
\* temporary file, which held the document, is removed and no output is
\* written.
C19_Witness ==
  /\ pc = "exit"
  /\ disk.render = "timeout"
  /\ disk.html # <<>>
  /\ disk.tmp = "removed"
  /\ disk.out = "none"
  /\ err = "failed to generate PDF"
====
